---- MODULE Spec2Model ----
(***************************************************************************)
(* Usage aggregation of tokbar (src-tauri/src): the chat-log pass          *)
(* (claude.rs), the exec-session pass (codex.rs), timestamp parsing        *)
(* (time_parse.rs) and pricing (pricing.rs).                               *)
(*                                                                         *)
(* Encoding conventions                                                    *)
(*   Option<T>      None == <<>>, Some(x) == <<x>>                         *)
(*   String         a sequence of symbols (one-symbol strings are chars or *)
(*                  indivisible chunks such as "claude-")                  *)
(*   JSON string    Option<String>: <<>> when the key is absent or the     *)
(*                  value is not a string                                  *)
(*   JSON number    <<>> absent / not a number, <<n>> the integer n        *)
(*                  (n < 0 allowed), <<n, "frac">> the non-integer n + 1/2 *)
(*   u64            0 .. U64Max with U64Max == 2^WordBits - 1              *)
(*   f64 money      integers (a fixed-point unit of cost)                  *)
(*   instants       ParsedTimestamp.millis counts hours, local_date days   *)
(***************************************************************************)
EXTENDS Integers, Sequences, FiniteSets, TLC

VARIABLES
    mode,                       \* which pass runs: cc_range, cc_all, cx_range, cx_all
    files,                      \* the file list handed to the pass (contents by position)
    range,                      \* DateRange {since_yyyymmdd, until_yyyymmdd}
    tz,                         \* the viewer's UTC offset (chrono::Local), in hours
    dataset,                    \* the pricing mapping: a set of <<key, record>> pairs
    pc,                         \* start, scan, done, panicked
    profile,                    \* "any" until the first u64 overflow wrapped, then "release"
    order,                      \* indices into files in processing order
    fi, li,                     \* position: index into order, line of that file
    processed_hashes,           \* claude.rs: the seen-key set of the pass
    totals,                     \* UsageTotals {total_tokens, cost_usd}
    previous_totals,            \* codex.rs: Option<RawUsage>, per file
    current_model,              \* codex.rs: Option<String>, per file
    current_model_is_fallback,  \* codex.rs: bool, per file
    model_tokens,               \* codex.rs: set of <<model, CodexTokens>> (the HashMap)
    counted,                    \* history: what each counted entry added
    last_event,                 \* history: the last exec-session event that reached delta computation
    prior,                      \* history: the result of the caller's earlier call of the pass, if any
    call,                       \* a call of a cost function: its arguments and what it returned
    now,                        \* Instant::now(), in minutes
    logs,                       \* the log directories: tokens logged in the file of each
    files_cache,                \* per source: ClaudeFilesCache / SessionFilesCache
    slots,                      \* usage.rs: the four all-time caches
    locks,                      \* the Mutex of each cache: 0 when free, else the holding thread
    threads,                    \* per thread: the query it runs, its position and its locals
    started,                    \* the number of queries started so far
    recomputed                  \* history: the recomputations of the caches, in order of start

vars == << mode, files, range, tz, dataset, pc, profile, order, fi, li,
           processed_hashes, totals, previous_totals, current_model,
           current_model_is_fallback, model_tokens, counted, last_event, prior, call,
           now, logs, files_cache, slots, locks, threads, started, recomputed >>

-----------------------------------------------------------------------------
(* Bounds of the model *)

WordBits == 4
MaxFiles == 2
MaxLines == 3

U64Max == 2^WordBits - 1

-----------------------------------------------------------------------------
(* Option, strings, integers *)

None == <<>>
Some(x) == <<x>>
IsSome(o) == o /= <<>>
Unwrap(o) == o[1]
UnwrapOr(o, d) == IF o = <<>> THEN d ELSE o[1]

Min(a, b) == IF a <= b THEN a ELSE b
Max(a, b) == IF a >= b THEN a ELSE b

RECURSIVE SeqSum(_)
SeqSum(s) == IF s = <<>> THEN 0 ELSE s[1] + SeqSum(Tail(s))

RECURSIVE TrimLeft(_)
TrimLeft(s) == IF s /= <<>> /\ Head(s) = " " THEN TrimLeft(Tail(s)) ELSE s

RECURSIVE TrimRight(_)
TrimRight(s) ==
    IF s /= <<>> /\ s[Len(s)] = " " THEN TrimRight(SubSeq(s, 1, Len(s) - 1)) ELSE s

\* str::trim
Trim(s) == TrimRight(TrimLeft(s))

\* u64::saturating_add
saturating_add_MutWrap(a, b) == (a + b) % (U64Max + 1)
saturating_add(a, b) == IF a + b > U64Max THEN U64Max ELSE a + b

\* u64::saturating_sub
saturating_sub(a, b) == IF a >= b THEN a - b ELSE 0

\* The u64 `+` operator: the set of outcomes of a sum of u64 terms whose
\* mathematical value is n. Without overflow the value; on overflow a panic
\* (overflow checks on, the debug profile) or the wrapped value (release). A
\* process that has already wrapped once is a release build and never panics.
PlainAdd(n, prof) ==
    IF n <= U64Max THEN {[panic |-> FALSE, v |-> n, profile |-> prof]}
    ELSE {[panic |-> FALSE, v |-> n % (U64Max + 1), profile |-> "release"]}
         \cup (IF prof = "any" THEN {[panic |-> TRUE, v |-> 0, profile |-> prof]} ELSE {})

-----------------------------------------------------------------------------
(* time_parse.rs *)

\* A timestamp text by its form. day/hour/off are what is written in it:
\*   rfc3339   <day>T<hour>:00:00+<off>:00   offset-qualified
\*   naive     <day>T<hour>:00:00            date-time without offset
\*   dateonly  YYYY-MM-DD
\*   slash     YYYY/MM/DD
\*   digits    only ASCII digits; day is the day the number would name as an
\*             epoch value
\*   garbage   any other text, e.g. "not-a-date"
\*   empty     "" or only whitespace
Ts(form, day, hour, off) == [form |-> form, day |-> day, hour |-> hour, off |-> off]

\* from_rfc3339: the instant, and its date in the viewer's timezone
from_rfc3339(t, zone) ==
    LET millis == t.day * 24 + t.hour - t.off
    IN  Some([millis |-> millis, local_date |-> (millis + zone) \div 24])

\* from_local_naive on a fixed-offset zone (LocalResult::Single)
from_local_naive(day, hour, zone) ==
    Some([millis |-> day * 24 + hour - zone, local_date |-> day])

\* from_utc_date_only: UTC midnight, seen from the viewer's timezone
from_utc_date_only_MutLocalMidnight(day, zone) ==
    Some([millis |-> day * 24 - zone, local_date |-> day])
from_utc_date_only(day, zone) ==
    LET millis == day * 24
    IN  Some([millis |-> millis, local_date |-> (millis + zone) \div 24])

parse_js_timestamp_MutEpochDigits(t, zone) ==
    CASE t.form = "empty"    -> None
      [] t.form = "digits"   -> from_utc_date_only(t.day, zone)
      [] t.form = "rfc3339"  -> from_rfc3339(t, zone)
      [] t.form = "naive"    -> from_local_naive(t.day, t.hour, zone)
      [] t.form = "dateonly" -> from_utc_date_only(t.day, zone)
      [] t.form = "slash"    -> from_local_naive(t.day, 0, zone)
      [] OTHER               -> None
parse_js_timestamp(t, zone) ==
    CASE t.form = "empty"    -> None
      [] t.form = "digits"   -> None
      [] t.form = "rfc3339"  -> from_rfc3339(t, zone)
      [] t.form = "naive"    -> from_local_naive(t.day, t.hour, zone)
      [] t.form = "dateonly" -> from_utc_date_only(t.day, zone)
      [] t.form = "slash"    -> from_local_naive(t.day, 0, zone)
      [] OTHER               -> None

-----------------------------------------------------------------------------
(* time_range.rs, and parse_yyyymmdd of claude.rs / codex.rs *)

\* A since/until text: a well-formed YYYYMMDD text naming day `day`, or a
\* text that NaiveDate::parse_from_str(_, "%Y%m%d") rejects.
DateText(day) == [ok |-> TRUE, day |-> day]
BadDateText == [ok |-> FALSE, day |-> 0]

parse_yyyymmdd_MutLenient(value) == Some(value.day)
parse_yyyymmdd(value) == IF value.ok THEN Some(value.day) ELSE None

-----------------------------------------------------------------------------
(* pricing.rs *)

\* LiteLLMModelPricing: every rate an Option
Pricing(inp, out, cc, cr, inp200, out200, cc200, cr200) ==
    [ input_cost_per_token |-> inp,
      output_cost_per_token |-> out,
      cache_creation_input_token_cost |-> cc,
      cache_read_input_token_cost |-> cr,
      input_cost_per_token_above_200k_tokens |-> inp200,
      output_cost_per_token_above_200k_tokens |-> out200,
      cache_creation_input_token_cost_above_200k_tokens |-> cc200,
      cache_read_input_token_cost_above_200k_tokens |-> cr200 ]

\* u8::to_ascii_lowercase on the symbols the model uses
LowerSym(c) ==
    CASE c = "GPT-5" -> "gpt-5"
      [] c = "OPUS"  -> "opus"
      [] OTHER       -> c

to_ascii_lowercase(s) == [i \in 1..Len(s) |-> LowerSym(s[i])]

\* str::contains
contains(s, sub) ==
    \E i \in 0..(Len(s) - Len(sub)) : SubSeq(s, i + 1, i + Len(sub)) = sub

DatasetKeys(ds) == {p[1] : p \in ds}
DatasetGet(ds, key) ==
    IF key \in DatasetKeys(ds) THEN Some((CHOOSE p \in ds : p[1] = key)[2]) ELSE None

\* The first candidate that is a key of the dataset, if any
RECURSIVE FirstHit(_, _)
FirstHit(ds, candidates) ==
    IF candidates = <<>> THEN None
    ELSE IF Head(candidates) \in DatasetKeys(ds) THEN DatasetGet(ds, Head(candidates))
    ELSE FirstHit(ds, Tail(candidates))

\* find_model_pricing: the set of values a call can return. The substring
\* fallback iterates a HashMap, whose order is unspecified: any matching key
\* can be the first one met.
find_model_pricing_MutSubstringFirst(ds, model_name, provider_prefixes) ==
    LET candidates == <<model_name>> \o
                      [i \in 1..Len(provider_prefixes) |-> provider_prefixes[i] \o model_name]
        lower == to_ascii_lowercase(model_name)
        fuzzy == {p \in ds : \/ contains(to_ascii_lowercase(p[1]), lower)
                             \/ contains(lower, to_ascii_lowercase(p[1]))}
    IN  IF model_name \in DatasetKeys(ds) THEN {DatasetGet(ds, model_name)}
        ELSE IF fuzzy # {} THEN {Some(p[2]) : p \in fuzzy}
        ELSE {FirstHit(ds, candidates)}
find_model_pricing(ds, model_name, provider_prefixes) ==
    LET candidates == <<model_name>> \o
                      [i \in 1..Len(provider_prefixes) |-> provider_prefixes[i] \o model_name]
        exact == FirstHit(ds, candidates)
        lower == to_ascii_lowercase(model_name)
        fuzzy == {p \in ds : \/ contains(to_ascii_lowercase(p[1]), lower)
                             \/ contains(lower, to_ascii_lowercase(p[1]))}
    IN  IF IsSome(exact) THEN {exact}
        ELSE IF fuzzy = {} THEN {None}
        ELSE {Some(p[2]) : p \in fuzzy}

DEFAULT_TIERED_THRESHOLD == 200000

tiered_cost_MutAllAbove(total_tokens, base, above) ==
    IF total_tokens > DEFAULT_TIERED_THRESHOLD /\ IsSome(above)
    THEN total_tokens * Unwrap(above)
    ELSE UnwrapOr(base, 0) * total_tokens
tiered_cost(total_tokens, base, above) ==
    IF total_tokens = 0 THEN 0
    ELSE IF total_tokens > DEFAULT_TIERED_THRESHOLD /\ IsSome(above)
         THEN (total_tokens - DEFAULT_TIERED_THRESHOLD) * Unwrap(above)
              + (IF IsSome(base) THEN DEFAULT_TIERED_THRESHOLD * Unwrap(base) ELSE 0)
         ELSE UnwrapOr(base, 0) * total_tokens

calculate_claude_cost_from_pricing(tokens, pricing) ==
    tiered_cost(tokens.input_tokens, pricing.input_cost_per_token,
                pricing.input_cost_per_token_above_200k_tokens)
    + tiered_cost(tokens.output_tokens, pricing.output_cost_per_token,
                  pricing.output_cost_per_token_above_200k_tokens)
    + tiered_cost(tokens.cache_creation_input_tokens,
                  pricing.cache_creation_input_token_cost,
                  pricing.cache_creation_input_token_cost_above_200k_tokens)
    + tiered_cost(tokens.cache_read_input_tokens, pricing.cache_read_input_token_cost,
                  pricing.cache_read_input_token_cost_above_200k_tokens)

calculate_codex_cost_from_pricing_MutCachedAsInput(tokens, pricing) ==
    tokens.input_tokens * UnwrapOr(pricing.input_cost_per_token, 0)
    + tokens.output_tokens * UnwrapOr(pricing.output_cost_per_token, 0)
calculate_codex_cost_from_pricing(tokens, pricing) ==
    LET non_cached_input_tokens ==
            saturating_sub(tokens.input_tokens, tokens.cached_input_tokens)
        input_cost == UnwrapOr(pricing.input_cost_per_token, 0)
        cache_read_cost ==
            IF IsSome(pricing.cache_read_input_token_cost)
            THEN Unwrap(pricing.cache_read_input_token_cost)
            ELSE UnwrapOr(pricing.input_cost_per_token, 0)
        output_cost == UnwrapOr(pricing.output_cost_per_token, 0)
    IN  non_cached_input_tokens * input_cost
        + tokens.cached_input_tokens * cache_read_cost
        + tokens.output_tokens * output_cost

-----------------------------------------------------------------------------
(* claude.rs: parsing one line *)

CLAUDE_PROVIDER_PREFIXES ==
    << <<"anthropic/">>, <<"claude-", "3-", "5-">>, <<"claude-", "3-">>, <<"claude-">>,
       <<"openai/">>, <<"azure/">>, <<"openrouter/", "openai/">> >>

\* as_non_empty_string on a JSON string whose text is a sequence of symbols
as_non_empty_string(value) ==
    IF value = None THEN None
    ELSE IF Trim(Unwrap(value)) = <<>> THEN None
    ELSE Some(Trim(Unwrap(value)))

\* as_non_empty_string on the timestamp field (a timestamp text by its form)
as_non_empty_timestamp_MutMustParse(value) ==
    IF value = None THEN None
    ELSE IF Unwrap(value).form \in {"empty", "digits", "garbage"} THEN None
    ELSE value
as_non_empty_timestamp(value) ==
    IF value = None THEN None
    ELSE IF Unwrap(value).form = "empty" THEN None
    ELSE value

\* as_u64_token: integers 0..u64::MAX; the float 2^64 (u64::MAX as f64) passes
\* the bound check and the cast saturates; anything else is absent
as_u64_token(value) ==
    IF Len(value) /= 1 THEN None
    ELSE IF value[1] < 0 THEN None
    ELSE IF value[1] <= U64Max THEN Some(value[1])
    ELSE IF value[1] = U64Max + 1 THEN Some(U64Max)
    ELSE None

\* as_f64
as_f64(value) == IF Len(value) = 1 THEN Some(value[1]) ELSE None

\* first_u64_token over two keys
first_u64_token(first, second) ==
    IF IsSome(as_u64_token(first)) THEN as_u64_token(first) ELSE as_u64_token(second)

\* One line of a chat-log file.
\*   kind       blank: empty after trim; text: not valid JSON; json: a JSON object
\*   usage_at   where the "usage" object is: message, top, none
\*   message    whether "message" is an object
BlankLine ==
    [ kind |-> "blank", timestamp |-> None, message |-> FALSE, usage_at |-> "none",
      input_tokens |-> <<>>, prompt_tokens |-> <<>>, output_tokens |-> <<>>,
      completion_tokens |-> <<>>, cache_creation_input_tokens |-> <<>>,
      cache_read_input_tokens |-> <<>>, id |-> None, requestId |-> None,
      model |-> None, top_model |-> None, costUSD |-> <<>> ]

\* `trimmed.contains("\"usage\"")`
HasUsageText(l) == l.kind /= "blank" /\ l.usage_at /= "none"

parse_usage_entry_MutCacheRequired(l) ==
    LET timestamp == as_non_empty_timestamp(l.timestamp)
        input_tokens == first_u64_token(l.input_tokens, l.prompt_tokens)
        output_tokens == first_u64_token(l.output_tokens, l.completion_tokens)
        model == IF IsSome(as_non_empty_string(l.model))
                 THEN as_non_empty_string(l.model)
                 ELSE as_non_empty_string(l.top_model)
    IN  IF \/ timestamp = None
           \/ ~l.message
           \/ l.usage_at = "none"
           \/ input_tokens = None
           \/ output_tokens = None
           \/ as_u64_token(l.cache_creation_input_tokens) = None
           \/ as_u64_token(l.cache_read_input_tokens) = None
        THEN None
        ELSE Some([ timestamp |-> Unwrap(timestamp),
                    message_id |-> as_non_empty_string(l.id),
                    request_id |-> as_non_empty_string(l.requestId),
                    model |-> model,
                    input_tokens |-> Unwrap(input_tokens),
                    output_tokens |-> Unwrap(output_tokens),
                    cache_creation_input_tokens |->
                        Unwrap(as_u64_token(l.cache_creation_input_tokens)),
                    cache_read_input_tokens |->
                        Unwrap(as_u64_token(l.cache_read_input_tokens)),
                    cost_usd |-> as_f64(l.costUSD) ])
parse_usage_entry(l) ==
    LET timestamp == as_non_empty_timestamp(l.timestamp)
        input_tokens == first_u64_token(l.input_tokens, l.prompt_tokens)
        output_tokens == first_u64_token(l.output_tokens, l.completion_tokens)
        model == IF IsSome(as_non_empty_string(l.model))
                 THEN as_non_empty_string(l.model)
                 ELSE as_non_empty_string(l.top_model)
    IN  IF \/ timestamp = None
           \/ ~l.message
           \/ l.usage_at = "none"
           \/ input_tokens = None
           \/ output_tokens = None
        THEN None
        ELSE Some([ timestamp |-> Unwrap(timestamp),
                    message_id |-> as_non_empty_string(l.id),
                    request_id |-> as_non_empty_string(l.requestId),
                    model |-> model,
                    input_tokens |-> Unwrap(input_tokens),
                    output_tokens |-> Unwrap(output_tokens),
                    cache_creation_input_tokens |->
                        UnwrapOr(as_u64_token(l.cache_creation_input_tokens), 0),
                    cache_read_input_tokens |->
                        UnwrapOr(as_u64_token(l.cache_read_input_tokens), 0),
                    cost_usd |-> as_f64(l.costUSD) ])

unique_hash_MutLoose(entry) ==
    Some(UnwrapOr(entry.message_id, <<>>) \o <<":">> \o UnwrapOr(entry.request_id, <<>>))
unique_hash(entry) ==
    IF entry.message_id = None \/ entry.request_id = None THEN None
    ELSE Some(Unwrap(entry.message_id) \o <<":">> \o Unwrap(entry.request_id))

date_in_range_local_MutOpenEnd(timestamp, since, until, zone) ==
    LET parsed == parse_js_timestamp(timestamp, zone)
    IN  parsed /= None /\ Unwrap(parsed).local_date >= since
date_in_range_local(timestamp, since, until, zone) ==
    LET parsed == parse_js_timestamp(timestamp, zone)
    IN  /\ parsed /= None
        /\ Unwrap(parsed).local_date >= since
        /\ Unwrap(parsed).local_date <= until

-----------------------------------------------------------------------------
(* claude.rs: ordering the files *)

\* A file: whether File::open succeeds, and its lines
File(lines) == [readable |-> TRUE, lines |-> lines]
Unreadable == [readable |-> FALSE, lines |-> <<>>]

\* The fold of earliest_timestamp_millis over the lines: a line contributes
\* when it is JSON, its timestamp is a string and the string parses
RECURSIVE EarliestOf(_, _, _)
EarliestOf(lines, zone, earliest) ==
    IF lines = <<>> THEN earliest
    ELSE LET l == Head(lines)
             parsed == IF l.kind = "json" /\ l.timestamp /= None
                       THEN parse_js_timestamp(Unwrap(l.timestamp), zone)
                       ELSE None
             next == IF parsed = None THEN earliest
                     ELSE IF earliest = None THEN Some(Unwrap(parsed).millis)
                     ELSE Some(Min(Unwrap(earliest), Unwrap(parsed).millis))
         IN  EarliestOf(Tail(lines), zone, next)

earliest_timestamp_millis(file, zone) ==
    IF ~file.readable THEN None ELSE EarliestOf(file.lines, zone, None)

\* The comparator of sort_files_by_timestamp: TRUE when a orders strictly
\* before b (Ordering::Less)
TimestampLess_MutDescending(a, b) ==
    CASE a = None /\ b = None -> FALSE
      [] a = None             -> FALSE
      [] b = None             -> TRUE
      [] OTHER                -> Unwrap(a) > Unwrap(b)
TimestampLess(a, b) ==
    CASE a = None /\ b = None -> FALSE
      [] a = None             -> FALSE
      [] b = None             -> TRUE
      [] OTHER                -> Unwrap(a) < Unwrap(b)

\* Vec::sort_by is a stable sort: insert each element after every element
\* that does not order after it
RECURSIVE StableInsert(_, _, _)
StableInsert(sorted, x, key) ==
    IF sorted = <<>> THEN <<x>>
    ELSE IF TimestampLess(key[x], key[Head(sorted)]) THEN <<x>> \o sorted
    ELSE <<Head(sorted)>> \o StableInsert(Tail(sorted), x, key)

RECURSIVE StableSort(_, _, _)
StableSort(todo, sorted, key) ==
    IF todo = <<>> THEN sorted
    ELSE StableSort(Tail(todo), StableInsert(sorted, Head(todo), key), key)

\* sort_files_by_timestamp, as the sequence of positions in the input list
sort_files_by_timestamp(fs, zone) ==
    LET key == [i \in 1..Len(fs) |-> earliest_timestamp_millis(fs[i], zone)]
    IN  StableSort([i \in 1..Len(fs) |-> i], <<>>, key)

-----------------------------------------------------------------------------
(* codex.rs: parsing one line *)

LEGACY_FALLBACK_MODEL == <<"gpt-5">>
CODEX_PROVIDER_PREFIXES == << <<"openai/">>, <<"azure/">>, <<"openrouter/", "openai/">> >>

\* A JSON usage object (the value of last_token_usage / total_token_usage)
UsageObj(input, cached, output, reasoning, total) ==
    [ input_tokens |-> input, cached_input_tokens |-> cached,
      cache_read_input_tokens |-> <<>>, output_tokens |-> output,
      reasoning_output_tokens |-> reasoning, total_tokens |-> total ]

RawUsage(input, cached, output, reasoning, total) ==
    [ input_tokens |-> input, cached_input_tokens |-> cached, output_tokens |-> output,
      reasoning_output_tokens |-> reasoning, total_tokens |-> total ]

\* One line of an exec-session file.
\*   kind   blank: empty after trim; text: not valid JSON, or without the
\*          "event_msg" / "turn_context" text; json: a JSON object
CxBlankLine ==
    [ kind |-> "blank", type |-> "other", timestamp |-> None, payload_type |-> "other",
      info_model |-> None, info_model_name |-> None, info_metadata_model |-> None,
      payload_model |-> None, payload_metadata_model |-> None,
      last_token_usage |-> None, total_token_usage |-> None ]

\* ensure_u64: as as_u64_token, with 0 for everything it rejects
ensure_u64(value) ==
    IF Len(value) /= 1 THEN 0
    ELSE IF value[1] < 0 THEN 0
    ELSE IF value[1] <= U64Max THEN value[1]
    ELSE IF value[1] = U64Max + 1 THEN U64Max
    ELSE 0

\* extract_model(payload)
extract_model(l) ==
    CASE IsSome(as_non_empty_string(l.info_model)) -> as_non_empty_string(l.info_model)
      [] IsSome(as_non_empty_string(l.info_model_name)) ->
            as_non_empty_string(l.info_model_name)
      [] IsSome(as_non_empty_string(l.info_metadata_model)) ->
            as_non_empty_string(l.info_metadata_model)
      [] IsSome(as_non_empty_string(l.payload_model)) ->
            as_non_empty_string(l.payload_model)
      [] OTHER -> as_non_empty_string(l.payload_metadata_model)

\* normalize_raw_usage: the set of outcomes [panic, v, profile], v an
\* Option<RawUsage>. `input + output` is the u64 `+`.
normalize_raw_usage(value, prof) ==
    IF value = None THEN {[panic |-> FALSE, v |-> None, profile |-> prof]}
    ELSE LET obj == Unwrap(value)
             input == ensure_u64(obj.input_tokens)
             cached == ensure_u64(IF obj.cached_input_tokens /= <<>>
                                  THEN obj.cached_input_tokens
                                  ELSE obj.cache_read_input_tokens)
             output == ensure_u64(obj.output_tokens)
             reasoning == ensure_u64(obj.reasoning_output_tokens)
             total == ensure_u64(obj.total_tokens)
         IN  IF total > 0
             THEN {[panic |-> FALSE, profile |-> prof,
                    v |-> Some(RawUsage(input, cached, output, reasoning, total))]}
             ELSE {[panic |-> o.panic, profile |-> o.profile,
                    v |-> Some(RawUsage(input, cached, output, reasoning, o.v))]
                   : o \in PlainAdd(input + output, prof)}

subtract_raw_usage_MutIgnorePrevious(current, previous) == current
subtract_raw_usage(current, previous) ==
    LET p == UnwrapOr(previous, RawUsage(0, 0, 0, 0, 0))
    IN  RawUsage(saturating_sub(current.input_tokens, p.input_tokens),
                 saturating_sub(current.cached_input_tokens, p.cached_input_tokens),
                 saturating_sub(current.output_tokens, p.output_tokens),
                 saturating_sub(current.reasoning_output_tokens, p.reasoning_output_tokens),
                 saturating_sub(current.total_tokens, p.total_tokens))

\* convert_to_delta: the set of outcomes [panic, v, profile], v a DeltaUsage
convert_to_delta_MutNoClamp(raw, prof) ==
    IF raw.total_tokens > 0
    THEN {[panic |-> FALSE, profile |-> prof, v |-> raw]}
    ELSE {[panic |-> o.panic, profile |-> o.profile,
           v |-> [raw EXCEPT !.total_tokens = o.v]]
          : o \in PlainAdd(raw.input_tokens + raw.output_tokens, prof)}
convert_to_delta(raw, prof) ==
    LET cached == Min(raw.cached_input_tokens, raw.input_tokens)
    IN  IF raw.total_tokens > 0
        THEN {[panic |-> FALSE, profile |-> prof,
               v |-> RawUsage(raw.input_tokens, cached, raw.output_tokens,
                              raw.reasoning_output_tokens, raw.total_tokens)]}
        ELSE {[panic |-> o.panic, profile |-> o.profile,
               v |-> RawUsage(raw.input_tokens, cached, raw.output_tokens,
                              raw.reasoning_output_tokens, o.v)]
              : o \in PlainAdd(raw.input_tokens + raw.output_tokens, prof)}

model_alias(model) == IF model = <<"gpt-5", "-codex">> THEN Some(<<"gpt-5">>) ELSE None

\* pricing_for_model: the set of values a call can return
pricing_for_model(ds, model) ==
    UNION { IF IsSome(r) THEN {r}
            ELSE IF IsSome(model_alias(model))
                 THEN find_model_pricing(ds, Unwrap(model_alias(model)),
                                         CODEX_PROVIDER_PREFIXES)
                 ELSE {None}
            : r \in find_model_pricing(ds, model, CODEX_PROVIDER_PREFIXES) }

\* cost_for_tokens: the set of values a call can return
cost_for_tokens(tokens, model, ds) ==
    { IF p = None THEN 0 ELSE calculate_codex_cost_from_pricing(tokens, Unwrap(p))
      : p \in pricing_for_model(ds, model) }

\* The HashMap model_tokens as a set of <<model, CodexTokens>> pairs
CodexTokensDefault == [input_tokens |-> 0, cached_input_tokens |-> 0, output_tokens |-> 0]
TokensOf(mt, model) ==
    IF \E p \in mt : p[1] = model THEN (CHOOSE p \in mt : p[1] = model)[2]
    ELSE CodexTokensDefault
WithTokens(mt, model, tokens) == {p \in mt : p[1] /= model} \cup {<<model, tokens>>}

\* `for (model, tokens) in model_tokens { totals.cost_usd += cost_for_tokens(..) }`:
\* the set of sums the loop can produce
RECURSIVE CostSums(_, _)
CostSums(mt, ds) ==
    IF mt = {} THEN {0}
    ELSE LET p == CHOOSE q \in mt : TRUE
         IN  {c + rest : c \in cost_for_tokens(p[2], p[1], ds),
                         rest \in CostSums(mt \ {p}, ds)}

parse_local_date_if_in_range(timestamp, since, until, zone) ==
    LET parsed == parse_js_timestamp(timestamp, zone)
    IN  IF parsed = None THEN None
        ELSE IF Unwrap(parsed).local_date < since \/ Unwrap(parsed).local_date > until
             THEN None
        ELSE Some(Unwrap(parsed).local_date)

-----------------------------------------------------------------------------
(* The pass as a state machine: shared steps *)

UsageTotalsDefault == [total_tokens |-> 0, cost_usd |-> 0]

IsRanged == mode \in {"cc_range", "cx_range"}
IsClaude == mode \in {"cc_range", "cc_all"}

CurFile == files[order[fi]]
AtLine == pc = "scan" /\ fi <= Len(order) /\ CurFile.readable /\ li <= Len(CurFile.lines)
CurLine == CurFile.lines[li]

Since == Unwrap(parse_yyyymmdd(range.since_yyyymmdd))
Until == Unwrap(parse_yyyymmdd(range.until_yyyymmdd))

passVars == << processed_hashes, totals, previous_totals, current_model,
               current_model_is_fallback, model_tokens, counted, last_event >>
cacheVars == << now, logs, files_cache, slots, locks, threads, started, recomputed >>
inputVars == << mode, files, range, tz, dataset, prior, call, cacheVars >>

\* A u64 `+` overflowed with overflow checks on: the pass unwinds and returns nothing
Panic ==
    /\ pc' = "panicked"
    /\ UNCHANGED << inputVars, profile, order, fi, li, passVars >>

\* The range of a ranged pass: a malformed bound returns UsageTotals::default()
\* (claude.rs 260-265, codex.rs 307-312)
RangeIsValid ==
    /\ IsSome(parse_yyyymmdd(range.since_yyyymmdd))
    /\ IsSome(parse_yyyymmdd(range.until_yyyymmdd))

BeginScan(ord) ==
    /\ pc' = "scan"
    /\ order' = ord
    /\ fi' = 1
    /\ li' = 1
    /\ UNCHANGED << inputVars, profile, passVars >>

ReturnDefault ==
    /\ pc' = "done"
    /\ UNCHANGED << inputVars, profile, order, fi, li, passVars >>

Identity(n) == [i \in 1..n |-> i]

\* load_claude_totals_from_files_with_pricing: range check, then the sort
ClaudeStartRange ==
    /\ mode = "cc_range" /\ pc = "start"
    /\ IF RangeIsValid THEN BeginScan(sort_files_by_timestamp(files, tz))
       ELSE ReturnDefault

\* load_claude_totals_from_files_all_time_with_pricing: the list as given
ClaudeStartAllTime ==
    /\ mode = "cc_all" /\ pc = "start"
    /\ BeginScan(Identity(Len(files)))

\* load_codex_totals_from_files_with_pricing: range check; the list as given
CodexStartRange ==
    /\ mode = "cx_range" /\ pc = "start"
    /\ IF RangeIsValid THEN BeginScan(Identity(Len(files)))
       ELSE ReturnDefault

\* load_codex_totals_from_files_all_time_with_pricing
CodexStartAllTime ==
    /\ mode = "cx_all" /\ pc = "start"
    /\ BeginScan(Identity(Len(files)))

\* End of a file, or File::open failed: the next file, with the per-file
\* state of codex.rs fresh
NextFile_MutKeepState ==
    /\ pc = "scan" /\ fi <= Len(order)
    /\ ~CurFile.readable \/ li > Len(CurFile.lines)
    /\ fi' = fi + 1
    /\ li' = 1
    /\ UNCHANGED << inputVars, pc, profile, order, passVars >>
NextFile ==
    /\ pc = "scan" /\ fi <= Len(order)
    /\ ~CurFile.readable \/ li > Len(CurFile.lines)
    /\ fi' = fi + 1
    /\ li' = 1
    /\ previous_totals' = None
    /\ current_model' = None
    /\ current_model_is_fallback' = FALSE
    /\ UNCHANGED << inputVars, pc, profile, order, processed_hashes, totals,
                    model_tokens, counted, last_event >>

\* After the last file: the codex passes add the per-model cost, then the
\* totals are returned
Finish ==
    /\ pc = "scan" /\ fi > Len(order)
    /\ pc' = "done"
    /\ IF ~IsClaude /\ dataset /= {}
       THEN \E c \in CostSums(model_tokens, dataset) :
                totals' = [totals EXCEPT !.cost_usd = @ + c]
       ELSE totals' = totals
    /\ UNCHANGED << inputVars, profile, order, fi, li, processed_hashes, previous_totals,
                    current_model, current_model_is_fallback, model_tokens, counted,
                    last_event >>

-----------------------------------------------------------------------------
(* claude.rs: one line of a pass *)

\* `processed_hashes.contains(&hash)` for an entry that has a hash
IsDuplicate_MutNever(hash, seen) == FALSE
IsDuplicate(hash, seen) == hash /= None /\ Unwrap(hash) \in seen

ClaudeEntryCosts_MutPricingFirst(entry, ds) ==
    IF IsSome(entry.model)
    THEN { IF p = None THEN UnwrapOr(entry.cost_usd, 0)
           ELSE calculate_claude_cost_from_pricing(
                    [ input_tokens |-> entry.input_tokens,
                      output_tokens |-> entry.output_tokens,
                      cache_creation_input_tokens |-> entry.cache_creation_input_tokens,
                      cache_read_input_tokens |-> entry.cache_read_input_tokens ],
                    Unwrap(p))
           : p \in find_model_pricing(ds, Unwrap(entry.model), CLAUDE_PROVIDER_PREFIXES) }
    ELSE {UnwrapOr(entry.cost_usd, 0)}
\* What the cost branch can add for an entry
ClaudeEntryCosts(entry, ds) ==
    IF IsSome(entry.cost_usd) THEN {Unwrap(entry.cost_usd)}
    ELSE IF IsSome(entry.model)
         THEN { IF p = None THEN 0
                ELSE calculate_claude_cost_from_pricing(
                         [ input_tokens |-> entry.input_tokens,
                           output_tokens |-> entry.output_tokens,
                           cache_creation_input_tokens |-> entry.cache_creation_input_tokens,
                           cache_read_input_tokens |-> entry.cache_read_input_tokens ],
                         Unwrap(p))
                : p \in find_model_pricing(ds, Unwrap(entry.model), CLAUDE_PROVIDER_PREFIXES) }
         ELSE {0}

\* The four counts of an entry, as a mathematical sum
EntryTokenSum(entry) ==
    entry.input_tokens + entry.output_tokens
    + entry.cache_creation_input_tokens + entry.cache_read_input_tokens

\* The body of the line loop. Outcomes: skip (`continue`), panic, or count.
ClaudeLineOutcomes(l, ranged) ==
    LET parsed == parse_usage_entry(l)
        entry == Unwrap(parsed)
        hash == unique_hash(entry)
        skip == {[kind |-> "skip", profile |-> profile, hash |-> None, tokens |-> 0,
                  cost |-> 0]}
    IN  IF l.kind = "blank" THEN skip
        ELSE IF ~HasUsageText(l) THEN skip
        ELSE IF l.kind /= "json" THEN skip
        ELSE IF parsed = None THEN skip
        ELSE IF ranged /\ ~date_in_range_local(entry.timestamp, Since, Until, tz) THEN skip
        ELSE IF IsDuplicate(hash, processed_hashes) THEN skip
        ELSE { [ kind |-> IF o.panic THEN "panic" ELSE "count", profile |-> o.profile,
                 hash |-> hash, tokens |-> o.v, cost |-> c ]
               : o \in PlainAdd(EntryTokenSum(entry), profile),
                 c \in ClaudeEntryCosts(entry, dataset) }

ClaudeLine(ranged) ==
    /\ AtLine
    /\ \E o \in ClaudeLineOutcomes(CurLine, ranged) :
          IF o.kind = "panic" THEN Panic
          ELSE /\ li' = li + 1
               /\ profile' = o.profile
               /\ processed_hashes' =
                      IF o.kind = "count" /\ IsSome(o.hash)
                      THEN processed_hashes \cup {Unwrap(o.hash)} ELSE processed_hashes
               /\ totals' =
                      IF o.kind = "count"
                      THEN [ total_tokens |-> saturating_add(totals.total_tokens, o.tokens),
                             cost_usd |-> totals.cost_usd + o.cost ]
                      ELSE totals
               /\ counted' =
                      IF o.kind = "count"
                      THEN Append(counted, [file |-> order[fi], line |-> li,
                                            tokens |-> o.tokens, cost |-> o.cost])
                      ELSE counted
               /\ UNCHANGED << inputVars, pc, order, fi, previous_totals, current_model,
                               current_model_is_fallback, model_tokens, last_event >>

ClaudeRangeLine == mode = "cc_range" /\ ClaudeLine(TRUE)
ClaudeAllTimeLine == mode = "cc_all" /\ ClaudeLine(FALSE)

-----------------------------------------------------------------------------
(* codex.rs: one line of a pass *)

\* `delta.input_tokens == 0 && delta.cached_input_tokens == 0 &&
\*  delta.output_tokens == 0 && delta.reasoning_output_tokens == 0`
IsZeroDelta(delta) ==
    /\ delta.input_tokens = 0
    /\ delta.cached_input_tokens = 0
    /\ delta.output_tokens = 0
    /\ delta.reasoning_output_tokens = 0

\* The raw usage of an event: last_token_usage when present, else the
\* cumulative snapshot minus the previous one (codex.rs 370-375 / 495-500)
EventRaw(last_usage, total_usage, previous) ==
    IF IsSome(last_usage) THEN last_usage
    ELSE IF IsSome(total_usage) THEN Some(subtract_raw_usage(Unwrap(total_usage), previous))
    ELSE None

\* The snapshot kept for the next event (codex.rs 377-379 / 502-504)
NextPrevious_MutOnlyWhenUsed(last_usage, total_usage, previous) ==
    IF IsSome(total_usage) /\ last_usage = None THEN total_usage ELSE previous
NextPrevious(last_usage, total_usage, previous) ==
    IF IsSome(total_usage) THEN total_usage ELSE previous

\* Model resolution of an event (codex.rs 394-413 / 519-538):
\* the model used and the new per-file model state
ResolveModel(extracted, cur, cur_is_fallback) ==
    LET cur1 == IF IsSome(extracted) THEN extracted ELSE cur
        fb1 == IF IsSome(extracted) THEN FALSE ELSE cur_is_fallback
    IN  IF IsSome(cur1)
        THEN [model |-> Unwrap(cur1), current_model |-> cur1,
              current_model_is_fallback |-> fb1]
        ELSE [model |-> LEGACY_FALLBACK_MODEL,
              current_model |-> Some(LEGACY_FALLBACK_MODEL),
              current_model_is_fallback |-> TRUE]

CodexUnchanged(kind, prof) ==
    [ kind |-> kind, profile |-> prof, previous_totals |-> previous_totals,
      current_model |-> current_model,
      current_model_is_fallback |-> current_model_is_fallback,
      add |-> None, event |-> None ]

\* A token_count event from the reading of its usage objects on. `ranged`
\* adds the date filter, which comes last.
CodexEventOutcomes(l, ranged) ==
    UNION {
      IF o1.panic THEN {CodexUnchanged("panic", profile)}
      ELSE UNION {
        IF o2.panic THEN {CodexUnchanged("panic", profile)}
        ELSE
          LET last_usage == o1.v
              total_usage == o2.v
              raw == EventRaw(last_usage, total_usage, previous_totals)
              prev == NextPrevious(last_usage, total_usage, previous_totals)
              seen == [ last_usage |-> last_usage, total_usage |-> total_usage,
                        previous |-> previous_totals, raw |-> raw,
                        file |-> order[fi], line |-> li ]
          IN  IF raw = None
              THEN {[CodexUnchanged("step", o2.profile) EXCEPT
                        !.previous_totals = prev, !.event = Some(seen)]}
              ELSE {
                IF o3.panic THEN CodexUnchanged("panic", profile)
                ELSE
                  LET delta == o3.v
                      res == ResolveModel(extract_model(l), current_model,
                                          current_model_is_fallback)
                  IN  IF IsZeroDelta(delta)
                      THEN [CodexUnchanged("step", o3.profile) EXCEPT
                               !.previous_totals = prev, !.event = Some(seen)]
                      ELSE [ kind |-> "step", profile |-> o3.profile,
                             previous_totals |-> prev,
                             current_model |-> res.current_model,
                             current_model_is_fallback |-> res.current_model_is_fallback,
                             event |-> Some(seen),
                             add |-> IF ranged /\ parse_local_date_if_in_range(
                                                     Unwrap(l.timestamp), Since, Until, tz) = None
                                     THEN None
                                     ELSE Some([delta |-> delta, model |-> res.model]) ]
                : o3 \in convert_to_delta(Unwrap(raw), o2.profile) }
        : o2 \in normalize_raw_usage(l.total_token_usage, o1.profile) }
      : o1 \in normalize_raw_usage(l.last_token_usage, profile) }

\* The body of the line loop
CodexLineOutcomes(l, ranged) ==
    IF l.kind /= "json" THEN {CodexUnchanged("step", profile)}
    ELSE IF l.type = "turn_context"
         THEN IF IsSome(extract_model(l))
              THEN {[CodexUnchanged("step", profile) EXCEPT
                        !.current_model = extract_model(l),
                        !.current_model_is_fallback = FALSE]}
              ELSE {CodexUnchanged("step", profile)}
    ELSE IF l.type /= "event_msg" THEN {CodexUnchanged("step", profile)}
    ELSE IF l.payload_type /= "token_count" THEN {CodexUnchanged("step", profile)}
    ELSE IF ranged /\ l.timestamp = None THEN {CodexUnchanged("step", profile)}
    ELSE CodexEventOutcomes(l, ranged)

CodexLine(ranged) ==
    /\ AtLine
    /\ \E o \in CodexLineOutcomes(CurLine, ranged) :
          IF o.kind = "panic" THEN Panic
          ELSE /\ li' = li + 1
               /\ profile' = o.profile
               /\ previous_totals' = o.previous_totals
               /\ current_model' = o.current_model
               /\ current_model_is_fallback' = o.current_model_is_fallback
               /\ last_event' = IF IsSome(o.event) THEN o.event ELSE last_event
               /\ IF IsSome(o.add)
                  THEN LET delta == Unwrap(o.add).delta
                           model == Unwrap(o.add).model
                           old == TokensOf(model_tokens, model)
                       IN  /\ totals' = [totals EXCEPT !.total_tokens =
                                            saturating_add(@, delta.total_tokens)]
                           /\ model_tokens' =
                                IF dataset /= {}
                                THEN WithTokens(model_tokens, model,
                                       [ input_tokens |->
                                           saturating_add(old.input_tokens, delta.input_tokens),
                                         cached_input_tokens |->
                                           saturating_add(old.cached_input_tokens,
                                                          delta.cached_input_tokens),
                                         output_tokens |->
                                           saturating_add(old.output_tokens,
                                                          delta.output_tokens) ])
                                ELSE model_tokens
                           /\ counted' = Append(counted,
                                            [file |-> order[fi], line |-> li,
                                             tokens |-> delta.total_tokens, cost |-> 0,
                                             delta |-> delta, model |-> model])
                  ELSE UNCHANGED << totals, model_tokens, counted >>
               /\ UNCHANGED << inputVars, pc, order, fi, processed_hashes >>

CodexRangeLine == mode = "cx_range" /\ CodexLine(TRUE)
CodexAllTimeLine == mode = "cx_all" /\ CodexLine(FALSE)

-----------------------------------------------------------------------------
(* The caches: claude.rs / codex.rs file lists, usage.rs all-time totals *)

\* The cache lifetimes, in minutes
CLAUDE_FILES_TTL == 5
SESSION_FILES_TTL == 5
ALL_TIME_TTL == 5

\* How many queries are started, how many tokens are logged in all
MaxCalls == 2
MaxLog == 2

\* The readings of the clock: the start, and a minute before and at the end
\* of a lifetime that began at the start
Instants == {0, ALL_TIME_TTL - 1, ALL_TIME_TTL}

Sources == {"cc", "cx"}

\* The log files: one in each directory that a source can resolve to
LogFiles == {<<"cc", "a">>, <<"cc", "b">>, <<"cx", "a">>}

\* The periodic refresher and a refresh the user triggers
Threads == {1, 2}

\* Pricing mappings, each reduced to the set of its rates
Mappings == {{}, {1}, {2}}

\* The directory lists of the model
DirLists == {<<>>, <<"a">>, <<"a", "b">>, <<"b", "a">>}

\* What default_claude_base_dirs / default_codex_session_dirs can resolve to
\* as the environment changes, within `lists`: an error (chat logs) or a list
\* of directories that is not empty and has no directory twice; no directory
\* or the one session directory (exec sessions)
Resolutions(src, lists) ==
    IF src = "cc"
    THEN {[ok |-> FALSE, dirs |-> <<>>]} \cup
         {[ok |-> TRUE, dirs |-> l] : l \in {x \in lists : x # <<>>}}
    ELSE {[ok |-> TRUE, dirs |-> l] : l \in {x \in lists : Len(x) <= 1}}

FilesTtl(src) == IF src = "cc" THEN CLAUDE_FILES_TTL ELSE SESSION_FILES_TTL

\* The guard of the cached file list: same directory list, scanned less than
\* the lifetime ago
FilesCacheHit_MutNoExpiry(cache, src, dirs, at) ==
    cache.base_dirs = dirs /\ IsSome(cache.scanned_at)
FilesCacheHit(cache, src, dirs, at) ==
    /\ cache.base_dirs = dirs
    /\ IsSome(cache.scanned_at)
    /\ at - Unwrap(cache.scanned_at) < FilesTtl(src)

\* The cache that a query's mapping selects
SlotOf_MutOnePerSource(src, ds) == <<src, TRUE>>
SlotOf(src, ds) == <<src, ds # {}>>

SlotKeys == Sources \X BOOLEAN

\* The guard of cached totals. CachedTotalsMaybe (chat logs) holds optional
\* totals; CachedTotals (exec sessions) holds totals, here always Some
SlotHit(slot, at) ==
    /\ IsSome(slot.computed_at)
    /\ IsSome(slot.totals)
    /\ at - Unwrap(slot.computed_at) < ALL_TIME_TTL

\* The rate of a mapping
Rate(ds) == IF ds = {} THEN 0 ELSE CHOOSE r \in ds : TRUE

\* The totals of a pass over the file list, given what the files hold when
\* they are read: the sum of their tokens, priced when the mapping has a rate
PassTotals_MutCountsFiles(src, fs, contents, ds) ==
    [ total_tokens |-> Len(fs), cost_usd |-> Len(fs) * Rate(ds) ]
PassTotals(src, fs, contents, ds) ==
    [ total_tokens |-> SeqSum([i \in 1..Len(fs) |-> contents[<<src, fs[i]>>]]),
      cost_usd |-> SeqSum([i \in 1..Len(fs) |-> contents[<<src, fs[i]>>]])
                   * Rate(ds) ]

\* A thread that runs no query
IdleThread ==
    [ pc |-> "idle", op |-> "range", src |-> "cc", ds |-> {}, dirs |-> <<>>, di |-> 0,
      files |-> <<>>, ret |-> None, err |-> FALSE ]

LockNames == {<<"files", s>> : s \in Sources} \cup {<<"slot", k>> : k \in SlotKeys}

\* The caches as constructed, nothing called yet
NoCalls ==
    /\ now = 0
    /\ logs = [f \in LogFiles |-> 0]
    /\ files_cache = [s \in Sources |-> [base_dirs |-> <<>>, scanned_at |-> None,
                                         files |-> <<>>]]
    /\ slots = [k \in SlotKeys |-> [computed_at |-> None,
                                    totals |-> IF k[1] = "cc" THEN None
                                               ELSE Some(UsageTotalsDefault)]]
    /\ locks = [l \in LockNames |-> 0]
    /\ threads = [t \in Threads |-> IdleThread]
    /\ started = 0
    /\ recomputed = <<>>

-----------------------------------------------------------------------------
(* Inputs *)

\* The non-decreasing cut points that split n lines into k files
Cuts(n, k) == {c \in [1..(k - 1) -> 0..n] : \A i \in 1..(k - 2) : c[i] <= c[i + 1]}

Split(ls, c, k) ==
    [i \in 1..k |->
        File(SubSeq(ls, (IF i = 1 THEN 0 ELSE c[i - 1]) + 1,
                        IF i = k THEN Len(ls) ELSE c[i]))]

\* files is a list of at most MaxFiles files over the lines S that holds at
\* most MaxLines lines in all; with `unreadable`, at most one of the files
\* cannot be opened
FilesOver(S, unreadable) ==
    \/ files = <<>>
    \/ \E k \in 1..MaxFiles, n \in 0..MaxLines :
         \E ls \in [1..n -> S], c \in Cuts(n, k) :
            \E u \in (IF unreadable THEN 0..k ELSE {0}) :
               files = IF u = 0 THEN Split(ls, c, k)
                       ELSE [Split(ls, c, k) EXCEPT ![u] = Unreadable]

TsEarly == Ts("rfc3339", 2, 4, 0)
TsLate == Ts("rfc3339", 2, 12, 0)
TsGarbage == Ts("garbage", 0, 0, 0)

\* A chat-log entry with its usage object under "message"
CcEntry(ts, id, rid, input, output, cost, model) ==
    [ BlankLine EXCEPT
        !.kind = "json", !.timestamp = ts, !.message = TRUE, !.usage_at = "message",
        !.input_tokens = input, !.output_tokens = output, !.id = id, !.requestId = rid,
        !.costUSD = cost, !.model = model ]

\* A JSON line that carries a timestamp and no usage
CcOther(ts) == [BlankLine EXCEPT !.kind = "json", !.timestamp = ts]

M1 == Some(<<"m", "1">>)
M2 == Some(<<"m", "2">>)
R1 == Some(<<"r", "1">>)
ModelOpus == Some(<<"claude-", "opus">>)

\* Lines for the dedupe / ordering / overflow claims
DedupeLines ==
    { CcEntry(Some(TsEarly), M1, R1, <<1>>, <<2>>, <<>>, None),
      CcEntry(Some(TsLate), M1, R1, <<3>>, <<0>>, <<5>>, None),
      CcEntry(Some(TsLate), M1, None, <<2>>, <<1>>, <<>>, None),
      CcEntry(Some(TsLate), Some(<<" ">>), R1, <<U64Max - 1>>, <<0>>, <<>>, None),
      CcEntry(Some(TsGarbage), M1, R1, <<1>>, <<1>>, <<>>, None),
      CcEntry(Some(TsEarly), M2, R1, <<U64Max>>, <<1>>, <<>>, None) }

\* Lines for the range claims
RangeLines ==
    { CcEntry(Some(TsEarly), M1, R1, <<1>>, <<2>>, <<>>, ModelOpus),
      CcEntry(Some(TsLate), M1, None, <<2>>, <<1>>, <<5>>, None),
      CcEntry(Some(TsGarbage), M2, R1, <<1>>, <<1>>, <<>>, None),
      CcOther(Some(Ts("rfc3339", 1, 0, 0))) }

\* An exec-session token_count event
CxEvent(ts, last, total) ==
    [ CxBlankLine EXCEPT
        !.kind = "json", !.type = "event_msg", !.payload_type = "token_count",
        !.timestamp = ts, !.last_token_usage = last, !.total_token_usage = total ]

CxContext(model) ==
    [CxBlankLine EXCEPT !.kind = "json", !.type = "turn_context", !.info_model = model]

\* Lines for the delta-reconstruction / overflow claims
DeltaLines ==
    { CxEvent(Some(TsLate), None, Some(UsageObj(<<3>>, <<1>>, <<2>>, <<0>>, <<5>>))),
      CxEvent(Some(TsLate), None, Some(UsageObj(<<5>>, <<1>>, <<1>>, <<1>>, <<6>>))),
      CxEvent(None, None, Some(UsageObj(<<4>>, <<4>>, <<2>>, <<0>>, <<6>>))),
      CxEvent(Some(TsLate), Some(UsageObj(<<1>>, <<9>>, <<1>>, <<0>>, <<2>>)),
              Some(UsageObj(<<6>>, <<2>>, <<2>>, <<0>>, <<8>>))),
      CxEvent(Some(TsEarly), Some(UsageObj(<<U64Max>>, <<0>>, <<1>>, <<0>>, <<>>)), None),
      CxEvent(Some(TsLate), Some(UsageObj(<<U64Max - 1>>, <<0>>, <<0>>, <<0>>, <<>>)), None) }

\* Lines for the range claims
CxRangeLines ==
    { CxContext(Some(<<"gpt-5", "-codex">>)),
      CxEvent(Some(TsEarly), None, Some(UsageObj(<<3>>, <<1>>, <<2>>, <<0>>, <<5>>))),
      CxEvent(None, Some(UsageObj(<<1>>, <<0>>, <<2>>, <<0>>, <<3>>)), None),
      CxEvent(Some(TsLate), Some(UsageObj(<<1>>, <<9>>, <<1>>, <<0>>, <<2>>)),
              Some(UsageObj(<<6>>, <<2>>, <<2>>, <<0>>, <<8>>))) }

OpusPricing == Pricing(Some(3), Some(15), None, None, Some(6), None, None, None)
Gpt5Pricing == Pricing(Some(2), Some(10), None, Some(1), None, None, None, None)

Datasets ==
    { {},
      { << <<"anthropic/", "claude-", "opus">>, OpusPricing >>,
        << <<"gpt-5">>, Gpt5Pricing >> } }

Range(since, until) == [since_yyyymmdd |-> since, until_yyyymmdd |-> until]

Ranges ==
    { Range(DateText(2), DateText(2)), Range(DateText(1), DateText(1)),
      Range(DateText(2), DateText(1)),
      Range(BadDateText, DateText(2)), Range(DateText(2), BadDateText) }

\* The range variable of an all-time pass, which takes none
NoRange == Range(BadDateText, BadDateText)

-----------------------------------------------------------------------------
(* Specifications *)

InitWith(modes, ccLines, cxLines, unreadable, ranges, zones, datasets) ==
    /\ mode \in modes
    /\ FilesOver(IF IsClaude THEN ccLines ELSE cxLines, unreadable)
    /\ range \in (IF IsRanged THEN ranges ELSE {NoRange})
    /\ tz \in zones
    /\ dataset \in datasets
    /\ pc = "start"
    /\ profile = "any"
    /\ order = <<>>
    /\ fi = 0
    /\ li = 0
    /\ processed_hashes = {}
    /\ totals = UsageTotalsDefault
    /\ previous_totals = None
    /\ current_model = None
    /\ current_model_is_fallback = FALSE
    /\ model_tokens = {}
    /\ counted = <<>>
    /\ last_event = None
    /\ prior = None
    /\ call = None
    /\ NoCalls

NextClaude ==
    \/ ClaudeStartRange
    \/ ClaudeStartAllTime
    \/ ClaudeRangeLine
    \/ ClaudeAllTimeLine
    \/ NextFile
    \/ Finish

NextCodex ==
    \/ CodexStartRange
    \/ CodexStartAllTime
    \/ CodexRangeLine
    \/ CodexAllTimeLine
    \/ NextFile
    \/ Finish

Next ==
    \/ ClaudeStartRange
    \/ ClaudeStartAllTime
    \/ ClaudeRangeLine
    \/ ClaudeAllTimeLine
    \/ CodexStartRange
    \/ CodexStartAllTime
    \/ CodexRangeLine
    \/ CodexAllTimeLine
    \/ NextFile
    \/ Finish

\* Both sources, ranged and all-time, over the range lines
Init ==
    InitWith({"cc_range", "cc_all", "cx_range", "cx_all"},
             RangeLines, CxRangeLines, TRUE, Ranges, {-8}, Datasets)

Spec == Init /\ [][Next]_vars

\* The chat-log passes over the dedupe lines
InitClaude ==
    InitWith({"cc_range", "cc_all"}, DedupeLines, {}, FALSE,
             {Range(DateText(2), DateText(2))}, {-8, 0}, {{}})

SpecClaude == InitClaude /\ [][NextClaude]_vars

\* The exec-session passes over the delta lines
InitCodex ==
    InitWith({"cx_range", "cx_all"}, {}, DeltaLines, FALSE,
             {Range(DateText(2), DateText(2))}, {-8, 0}, {{}})

SpecCodex == InitCodex /\ [][NextCodex]_vars

-----------------------------------------------------------------------------
(* The same pass called twice, the file list in another order *)

\* The orders in which a list of n files can be handed to a pass
Perms(n) == {p \in [1..n -> 1..n] : \A i, j \in 1..n : p[i] = p[j] => i = j}

\* What a call counted, by the place of each file in the first call's list
CountedBy(perm) ==
    { [ file |-> perm[counted[i].file], line |-> counted[i].line,
        tokens |-> counted[i].tokens,
        delta |-> IF IsClaude THEN None ELSE Some(counted[i].delta),
        model |-> IF IsClaude THEN None ELSE Some(counted[i].model) ]
      : i \in 1..Len(counted) }

\* The caller has the result of a pass and calls the pass again with the
\* same arguments, the same files listed in the order sigma
CallAgain ==
    /\ pc = "done" /\ prior = None
    /\ \E sigma \in Perms(Len(files)) :
          /\ files' = [i \in 1..Len(files) |-> files[sigma[i]]]
          /\ prior' = Some([ total_tokens |-> totals.total_tokens,
                             counted |-> CountedBy(Identity(Len(files))),
                             perm |-> sigma ])
    /\ pc' = "start"
    /\ order' = <<>>
    /\ fi' = 0
    /\ li' = 0
    /\ processed_hashes' = {}
    /\ totals' = UsageTotalsDefault
    /\ previous_totals' = None
    /\ current_model' = None
    /\ current_model_is_fallback' = FALSE
    /\ model_tokens' = {}
    /\ counted' = <<>>
    /\ last_event' = None
    /\ UNCHANGED << mode, range, tz, dataset, profile, call, cacheVars >>

\* Chat-log lines that share one dedupe key: two of the same instant that
\* differ in their counts, a later one, and one whose timestamp does not parse
AgainLines ==
    { CcEntry(Some(TsEarly), M1, R1, <<1>>, <<2>>, <<>>, None),
      CcEntry(Some(TsEarly), M1, R1, <<2>>, <<2>>, <<>>, None),
      CcEntry(Some(TsLate), M1, R1, <<3>>, <<0>>, <<>>, None),
      CcEntry(Some(TsGarbage), M1, R1, <<1>>, <<1>>, <<>>, None) }

\* Exec-session lines whose delta and model depend on the lines before them
CxAgainLines ==
    { CxContext(Some(<<"gpt-5", "-codex">>)),
      CxEvent(Some(TsLate), None, Some(UsageObj(<<3>>, <<1>>, <<2>>, <<0>>, <<5>>))),
      CxEvent(Some(TsLate), None, Some(UsageObj(<<5>>, <<1>>, <<1>>, <<1>>, <<6>>))),
      CxEvent(Some(TsEarly), Some(UsageObj(<<1>>, <<0>>, <<2>>, <<0>>, <<3>>)), None) }

InitAgain ==
    InitWith({"cc_range", "cc_all", "cx_range", "cx_all"}, AgainLines, CxAgainLines, FALSE,
             {Range(DateText(2), DateText(2))}, {0}, {{}})

NextAgain ==
    \/ ClaudeStartRange
    \/ ClaudeStartAllTime
    \/ ClaudeRangeLine
    \/ ClaudeAllTimeLine
    \/ CodexStartRange
    \/ CodexStartAllTime
    \/ CodexRangeLine
    \/ CodexAllTimeLine
    \/ NextFile
    \/ Finish
    \/ CallAgain

SpecAgain == InitAgain /\ [][NextAgain]_vars

-----------------------------------------------------------------------------
(* The exec-session passes over events that declare models *)

\* A token_count event with a model in its payload
CxModelEvent(ts, model, last, total) ==
    [CxEvent(ts, last, total) EXCEPT !.payload_model = model]

ModelO3 == Some(<<"o3">>)
ModelMini == Some(<<"gpt-5", "-mini">>)

\* A context entry, events with and without a model of their own, an event
\* with a model and an all-zero usage, an event without timestamp, and an
\* event whose usage has nothing but a total
ModelLines ==
    { CxContext(ModelO3),
      CxModelEvent(Some(TsLate), ModelMini,
                   Some(UsageObj(<<2>>, <<0>>, <<1>>, <<0>>, <<3>>)), None),
      CxEvent(Some(TsLate), Some(UsageObj(<<1>>, <<0>>, <<1>>, <<0>>, <<2>>)), None),
      CxModelEvent(Some(TsLate), ModelMini,
                   Some(UsageObj(<<0>>, <<0>>, <<0>>, <<0>>, <<0>>)), None),
      CxModelEvent(None, ModelO3,
                   Some(UsageObj(<<1>>, <<0>>, <<0>>, <<0>>, <<1>>)), None),
      CxEvent(Some(TsLate), Some(UsageObj(<<>>, <<>>, <<>>, <<>>, <<5>>)), None) }

InitCodexModel ==
    InitWith({"cx_range", "cx_all"}, {}, ModelLines, FALSE,
             {Range(DateText(2), DateText(2))}, {0}, {{}})

SpecCodexModel == InitCodexModel /\ [][NextCodex]_vars

-----------------------------------------------------------------------------
(* The cost functions called on their own *)

\* The variables of a pass, which a call of a cost function leaves alone
idleVars == << mode, files, range, tz, dataset, pc, profile, order, fi, li, passVars, prior,
              cacheVars >>

\* No pass runs
NoPass ==
    /\ mode = "cc_all"
    /\ files = <<>>
    /\ range = NoRange
    /\ tz = 0
    /\ dataset = {}
    /\ pc = "start"
    /\ profile = "any"
    /\ order = <<>>
    /\ fi = 0
    /\ li = 0
    /\ processed_hashes = {}
    /\ totals = UsageTotalsDefault
    /\ previous_totals = None
    /\ current_model = None
    /\ current_model_is_fallback = FALSE
    /\ model_tokens = {}
    /\ counted = <<>>
    /\ last_event = None
    /\ prior = None

\* The state around a call of a cost function
Idle == NoPass /\ NoCalls

\* calculate_claude_cost_from_pricing(tokens, pricing) returns
CallClaudeCost ==
    /\ IsSome(call) /\ Unwrap(call).fn = "claude" /\ Unwrap(call).ret = None
    /\ call' = Some([Unwrap(call) EXCEPT !.ret =
                       Some(calculate_claude_cost_from_pricing(Unwrap(call).tokens,
                                                               Unwrap(call).pricing))])
    /\ UNCHANGED idleVars

\* calculate_codex_cost_from_pricing(tokens, pricing) returns
CallCodexCost ==
    /\ IsSome(call) /\ Unwrap(call).fn = "codex" /\ Unwrap(call).ret = None
    /\ call' = Some([Unwrap(call) EXCEPT !.ret =
                       Some(calculate_codex_cost_from_pricing(Unwrap(call).tokens,
                                                              Unwrap(call).pricing))])
    /\ UNCHANGED idleVars

\* Token counts around the tier threshold
TierTokens ==
    {0, DEFAULT_TIERED_THRESHOLD, DEFAULT_TIERED_THRESHOLD + 1, 2 * DEFAULT_TIERED_THRESHOLD}

\* Pricing records with every rate present or absent, the rates all different
TierPricings ==
    { Pricing(IF b[1] THEN Some(3) ELSE None, IF b[2] THEN Some(7) ELSE None,
              IF b[3] THEN Some(13) ELSE None, IF b[4] THEN Some(19) ELSE None,
              IF b[5] THEN Some(5) ELSE None, IF b[6] THEN Some(11) ELSE None,
              IF b[7] THEN Some(17) ELSE None, IF b[8] THEN Some(23) ELSE None)
      : b \in [1..8 -> BOOLEAN] }

InitTier ==
    /\ Idle
    /\ \E i, o, cc, cr \in TierTokens, p \in TierPricings :
          call = Some([ fn |-> "claude",
                        tokens |-> [ input_tokens |-> i, output_tokens |-> o,
                                     cache_creation_input_tokens |-> cc,
                                     cache_read_input_tokens |-> cr ],
                        pricing |-> p, ret |-> None ])

NextTier == CallClaudeCost

SpecTier == InitTier /\ [][NextTier]_vars

-----------------------------------------------------------------------------
(* The passes with costing, and the exec-session cost function on its own *)

\* Chat-log entries with and without an explicit cost, one with a negative
\* cost, with and without a model that the mapping prices
CostLines ==
    { CcEntry(Some(TsLate), M1, None, <<1>>, <<2>>, <<5>>, ModelOpus),
      CcEntry(Some(TsLate), None, None, <<1>>, <<0>>, <<-3>>, None),
      CcEntry(Some(TsLate), M2, None, <<2>>, <<1>>, <<>>, ModelOpus),
      CcEntry(Some(TsLate), None, None, <<3>>, <<0>>, <<7>>, None),
      CcEntry(Some(TsLate), None, None, <<1>>, <<1>>, <<>>, Some(<<"unknown">>)) }

\* Exec-session events of three models, one with more cached input than input
CxCostLines ==
    { CxContext(Some(<<"gpt-5", "-codex">>)),
      CxModelEvent(Some(TsLate), ModelO3,
                   Some(UsageObj(<<2>>, <<0>>, <<1>>, <<0>>, <<3>>)), None),
      CxEvent(Some(TsLate), Some(UsageObj(<<1>>, <<9>>, <<1>>, <<0>>, <<2>>)), None),
      CxEvent(Some(TsLate), Some(UsageObj(<<3>>, <<1>>, <<2>>, <<0>>, <<5>>)), None) }

Gpt5NoCacheRate == Pricing(Some(2), Some(10), None, None, Some(4), Some(20), None, Some(3))
Gpt5Tiered == Pricing(Some(2), Some(10), None, Some(1), Some(4), Some(20), None, Some(3))

CostDatasets ==
    { {},
      { << <<"anthropic/", "claude-", "opus">>, OpusPricing >>,
        << <<"gpt-5">>, Gpt5Pricing >> },
      { << <<"openai/", "gpt-5">>, Gpt5NoCacheRate >> } }

\* Calls of the exec-session cost function with sums beyond 200000 tokens
CodexCalls ==
    { Some([ fn |-> "codex",
             tokens |-> [ input_tokens |-> 400000, cached_input_tokens |-> c,
                          output_tokens |-> 300000 ],
             pricing |-> p, ret |-> None ])
      : c \in {0, 100000, 500000}, p \in {Gpt5NoCacheRate, Gpt5Tiered} }

InitCost ==
    \/ InitWith({"cc_range", "cc_all", "cx_range", "cx_all"}, CostLines, CxCostLines, FALSE,
                {Range(DateText(2), DateText(2))}, {0}, CostDatasets)
    \/ Idle /\ call \in CodexCalls

NextCost ==
    \/ ClaudeStartRange
    \/ ClaudeStartAllTime
    \/ ClaudeRangeLine
    \/ ClaudeAllTimeLine
    \/ CodexStartRange
    \/ CodexStartAllTime
    \/ CodexRangeLine
    \/ CodexAllTimeLine
    \/ NextFile
    \/ Finish
    \/ CallCodexCost

SpecCost == InitCost /\ [][NextCost]_vars

-----------------------------------------------------------------------------
(* The pricing lookups called on their own *)

\* Model names: one in two letter cases, one with an alias, one unrelated
LookupNames == { <<"gpt-5">>, <<"GPT-5">>, <<"gpt-5", "-codex">>, <<"o3">> }

\* Keys that are exact, prefixed, longer, shorter or differently cased forms
\* of the names, each with a record of its own
LookupEntries ==
    { << <<"gpt-5">>, Pricing(Some(1), None, None, None, None, None, None, None) >>,
      << <<"openai/", "gpt-5">>, Pricing(Some(2), None, None, None, None, None, None, None) >>,
      << <<"azure/", "gpt-5">>, Pricing(Some(3), None, None, None, None, None, None, None) >>,
      << <<"gpt-5", "-codex", "-high">>,
         Pricing(Some(4), None, None, None, None, None, None, None) >>,
      << <<"GPT-5", "-mini">>, Pricing(Some(5), None, None, None, None, None, None, None) >>,
      << <<"azure/", "gpt-5", "-codex">>,
         Pricing(Some(6), None, None, None, None, None, None, None) >>,
      << <<"opus">>, Pricing(Some(7), None, None, None, None, None, None, None) >> }

LookupCalls ==
    { Some([ fn |-> "find_model_pricing", dataset |-> ds, model_name |-> m,
             provider_prefixes |-> ps, ret |-> None ])
      : ds \in SUBSET LookupEntries, m \in LookupNames,
        ps \in {<<>>, CODEX_PROVIDER_PREFIXES} }
    \cup
    { Some([ fn |-> "pricing_for_model", dataset |-> ds, model_name |-> m,
             provider_prefixes |-> CODEX_PROVIDER_PREFIXES, ret |-> None ])
      : ds \in SUBSET LookupEntries, m \in LookupNames }

\* find_model_pricing(dataset, model_name, provider_prefixes) returns
CallFindModelPricing ==
    /\ IsSome(call) /\ Unwrap(call).fn = "find_model_pricing" /\ Unwrap(call).ret = None
    /\ \E r \in find_model_pricing(Unwrap(call).dataset, Unwrap(call).model_name,
                                   Unwrap(call).provider_prefixes) :
          call' = Some([Unwrap(call) EXCEPT !.ret = Some(r)])
    /\ UNCHANGED idleVars

\* pricing_for_model(dataset, model) returns
CallPricingForModel ==
    /\ IsSome(call) /\ Unwrap(call).fn = "pricing_for_model" /\ Unwrap(call).ret = None
    /\ \E r \in pricing_for_model(Unwrap(call).dataset, Unwrap(call).model_name) :
          call' = Some([Unwrap(call) EXCEPT !.ret = Some(r)])
    /\ UNCHANGED idleVars

InitLookup == Idle /\ call \in LookupCalls

NextLookup == CallFindModelPricing \/ CallPricingForModel

SpecLookup == InitLookup /\ [][NextLookup]_vars

-----------------------------------------------------------------------------
(* A pass over a list with bad records, then over the list without them *)

\* A chat-log line the pass takes no entry from: empty after trim
\* (claude.rs 275), not JSON (284-287), or refused by parse_usage_entry
\* (288-290)
CcBadRecord(l) == l.kind /= "json" \/ parse_usage_entry(l) = None

\* An exec-session line the pass takes nothing from: empty after trim, not
\* JSON, of a type that is neither turn_context nor event_msg, or a
\* token_count event that holds neither usage object
CxBadRecord(l) ==
    \/ l.kind /= "json"
    \/ l.type = "other"
    \/ /\ l.type = "event_msg" /\ l.payload_type = "token_count"
       /\ l.last_token_usage = None /\ l.total_token_usage = None

BadRecord(l) == IF IsClaude THEN CcBadRecord(l) ELSE CxBadRecord(l)

\* The file list without its unreadable files and without the bad records of
\* the files that remain
Cleaned(fs) ==
    LET opened == SelectSeq(fs, LAMBDA f : f.readable)
    IN  [i \in 1..Len(opened) |->
            File(SelectSeq(opened[i].lines, LAMBDA l : ~BadRecord(l)))]

HasBadRecord(fs) ==
    \E i \in 1..Len(fs) :
        \/ ~fs[i].readable
        \/ \E j \in 1..Len(fs[i].lines) : BadRecord(fs[i].lines[j])

\* The caller has the result of a pass over a list that holds bad records
\* and calls the pass again, with the same arguments, on the list without
\* them
CallCleaned ==
    /\ pc = "done" /\ prior = None
    /\ HasBadRecord(files)
    /\ files' = Cleaned(files)
    /\ prior' = Some([ total_tokens |-> totals.total_tokens,
                       cost_usd |-> totals.cost_usd,
                       files |-> files ])
    /\ pc' = "start"
    /\ order' = <<>>
    /\ fi' = 0
    /\ li' = 0
    /\ processed_hashes' = {}
    /\ totals' = UsageTotalsDefault
    /\ previous_totals' = None
    /\ current_model' = None
    /\ current_model_is_fallback' = FALSE
    /\ model_tokens' = {}
    /\ counted' = <<>>
    /\ last_event' = None
    /\ UNCHANGED << mode, range, tz, dataset, profile, call, cacheVars >>

\* A line that is not JSON
TextLine == [BlankLine EXCEPT !.kind = "text"]
CxTextLine == [CxBlankLine EXCEPT !.kind = "text"]

\* Chat-log lines: two valid entries of one key and one instant that differ
\* in their counts, a blank line, a line that is not JSON, and an entry
\* without output count that carries an earlier timestamp
BadLines ==
    { CcEntry(Some(TsLate), M1, R1, <<3>>, <<0>>, <<>>, None),
      CcEntry(Some(TsLate), M1, R1, <<4>>, <<0>>, <<>>, None),
      BlankLine,
      TextLine,
      CcEntry(Some(TsEarly), M1, R1, <<1>>, <<>>, <<>>, None) }

\* Exec-session lines: a snapshot event, a last-delta event, a blank line, a
\* line that is not JSON, and a token_count event without usage objects
CxBadLines ==
    { CxEvent(Some(TsLate), None, Some(UsageObj(<<3>>, <<1>>, <<2>>, <<0>>, <<5>>))),
      CxEvent(Some(TsLate), Some(UsageObj(<<1>>, <<0>>, <<2>>, <<0>>, <<3>>)), None),
      CxBlankLine,
      CxTextLine,
      CxEvent(Some(TsEarly), None, None) }

InitBad ==
    InitWith({"cc_range", "cc_all", "cx_range", "cx_all"}, BadLines, CxBadLines, TRUE,
             {Range(DateText(2), DateText(2))}, {0}, {{}})

NextBad ==
    \/ ClaudeStartRange
    \/ ClaudeStartAllTime
    \/ ClaudeRangeLine
    \/ ClaudeAllTimeLine
    \/ CodexStartRange
    \/ CodexStartAllTime
    \/ CodexRangeLine
    \/ CodexAllTimeLine
    \/ NextFile
    \/ Finish
    \/ CallCleaned

SpecBad == InitBad /\ [][NextBad]_vars

-----------------------------------------------------------------------------
(* Chat-log entries with and without their required fields *)

\* Chat-log lines of one key and one instant: an entry with a negative
\* input count; one whose counts sit under prompt_tokens and
\* completion_tokens, with a negative cache-creation count and a cache-read
\* count; one with a fractional output count; one with an empty timestamp;
\* one without usage object; and one complete under the usual names
EntryLines ==
    { CcEntry(Some(TsLate), M1, R1, <<-1>>, <<1>>, <<>>, None),
      [ CcEntry(Some(TsLate), M1, R1, <<>>, <<>>, <<>>, None) EXCEPT
          !.prompt_tokens = <<2>>, !.completion_tokens = <<1>>,
          !.cache_creation_input_tokens = <<-1>>, !.cache_read_input_tokens = <<3>> ],
      CcEntry(Some(TsLate), M1, R1, <<1>>, <<1, "frac">>, <<>>, None),
      CcEntry(Some(Ts("empty", 0, 0, 0)), M1, R1, <<1>>, <<1>>, <<>>, None),
      [ CcEntry(Some(TsLate), M1, R1, <<1>>, <<1>>, <<>>, None) EXCEPT
          !.usage_at = "none" ],
      CcEntry(Some(TsLate), M1, R1, <<1>>, <<0>>, <<>>, None) }

InitEntry ==
    InitWith({"cc_range", "cc_all"}, EntryLines, {}, FALSE,
             {Range(DateText(2), DateText(2))}, {0}, {{}})

SpecEntry == InitEntry /\ [][NextClaude]_vars

-----------------------------------------------------------------------------
(* claude.rs: default_claude_base_dirs *)

\* The longest override text tried
MaxOverride == 4

\* The characters of an override text: separator, blank, path separator and
\* two names
OverrideChars == {",", " ", "/", "c", "r"}

\* Texts of at most n characters
RECURSIVE TextsUpTo(_)
TextsUpTo(n) ==
    IF n = 0 THEN {<<>>}
    ELSE LET shorter == TextsUpTo(n - 1)
         IN  shorter \cup {Append(t, ch) : t \in {s \in shorter : Len(s) = n - 1},
                                           ch \in OverrideChars}

\* str::split(sep): the pieces between the separators, empty ones included
RECURSIVE SplitOn(_, _)
SplitOn(s, sep) ==
    IF \A i \in 1..Len(s) : s[i] /= sep THEN <<s>>
    ELSE LET k == CHOOSE i \in 1..Len(s) :
                     s[i] = sep /\ \A j \in 1..(i - 1) : s[j] /= sep
         IN  <<SubSeq(s, 1, k - 1)>> \o SplitOn(SubSeq(s, k + 1, Len(s)), sep)

\* PathBuf::from(text): whether it is absolute, and its components. PathBuf
\* compares by components, so repeated and trailing separators do not count.
PathBufFrom(text) ==
    [ absolute |-> text /= <<>> /\ Head(text) = "/",
      components |-> SelectSeq(SplitOn(text, "/"), LAMBDA c : c /= <<>>) ]

\* std::env::current_dir()
CurrentDir == PathBufFrom(<<"/", "c">>)

resolve_like_node(raw) ==
    LET base == PathBufFrom(raw)
    IN  IF base.absolute THEN base
        ELSE [ absolute |-> TRUE,
               components |-> CurrentDir.components \o base.components ]

\* The directories the override texts can name, and the default locations
OverrideDirs == { PathBufFrom(<<"/", "c", "/", "r">>), PathBufFrom(<<"/", "r">>) }
HomeText == <<"/", "h">>
XdgText == <<"/", "x">>
DefaultDirs ==
    { PathBufFrom(XdgText \o <<"/", "claude">>), PathBufFrom(HomeText \o <<"/", ".claude">>) }

\* What the file system holds at a path: nothing (or a file), a directory,
\* or a directory with a `projects` directory in it
FileSystems ==
    { o @@ d : o \in [OverrideDirs -> {"none", "dir", "projects"}],
               d \in [DefaultDirs -> {"none", "projects"}] }

\* The environment: CLAUDE_CONFIG_DIR, HOME, XDG_CONFIG_HOME, each unset
\* (None) or set to a text
Environments ==
    [ CLAUDE_CONFIG_DIR : {None} \cup {Some(t) : t \in TextsUpTo(MaxOverride)},
      HOME : {None, Some(<<>>), Some(HomeText)},
      XDG_CONFIG_HOME : {None, Some(XdgText)} ]

is_dir(fs, path) == path \in DOMAIN fs /\ fs[path] /= "none"
has_projects_dir(fs, base) == base \in DOMAIN fs /\ fs[base] = "projects"

\* The loop over the override's candidates (claude.rs 442-450)
RECURSIVE EnvCandidates_MutNoSeen(_, _, _)
EnvCandidates_MutNoSeen(raws, fs, out) ==
    IF raws = <<>> THEN out
    ELSE LET base == resolve_like_node(Head(raws))
         IN  IF ~is_dir(fs, base) \/ ~has_projects_dir(fs, base)
             THEN EnvCandidates_MutNoSeen(Tail(raws), fs, out)
             ELSE EnvCandidates_MutNoSeen(Tail(raws), fs, Append(out, base))
RECURSIVE EnvCandidates(_, _, _)
EnvCandidates(raws, fs, out) ==
    IF raws = <<>> THEN out
    ELSE LET base == resolve_like_node(Head(raws))
         IN  IF ~is_dir(fs, base) \/ ~has_projects_dir(fs, base)
             THEN EnvCandidates(Tail(raws), fs, out)
             ELSE IF \E i \in 1..Len(out) : out[i] = base
             THEN EnvCandidates(Tail(raws), fs, out)
             ELSE EnvCandidates(Tail(raws), fs, Append(out, base))

PathOk(dirs) == [ok |-> TRUE, dirs |-> dirs, error |-> "", env_paths |-> <<>>]
PathErr(error, env_paths) ==
    [ok |-> FALSE, dirs |-> <<>>, error |-> error, env_paths |-> env_paths]

default_claude_base_dirs(env, fs) ==
    LET env_paths == UnwrapOr(env.CLAUDE_CONFIG_DIR, <<>>)
        raws == SelectSeq([i \in 1..Len(SplitOn(env_paths, ",")) |->
                              Trim(SplitOn(env_paths, ",")[i])],
                          LAMBDA p : p /= <<>>)
        out == EnvCandidates(raws, fs, <<>>)
        home == UnwrapOr(env.HOME, <<>>)
        xdg_config == UnwrapOr(env.XDG_CONFIG_HOME, home \o <<"/", ".config">>)
        candidates == << PathBufFrom(xdg_config \o <<"/", "claude">>),
                         PathBufFrom(home \o <<"/", ".claude">>) >>
        defaults == SelectSeq(candidates,
                              LAMBDA base : is_dir(fs, base) /\ has_projects_dir(fs, base))
    IN  IF Trim(env_paths) /= <<>>
        THEN IF out = <<>> THEN PathErr("NoValidEnvPaths", Trim(env_paths))
             ELSE PathOk(out)
        ELSE IF home = <<>> THEN PathErr("NoValidDefaultPaths", <<>>)
        ELSE IF defaults = <<>> THEN PathErr("NoValidDefaultPaths", <<>>)
        ELSE PathOk(defaults)

\* default_claude_base_dirs() returns
CallDefaultClaudeBaseDirs ==
    /\ IsSome(call) /\ Unwrap(call).fn = "default_claude_base_dirs"
    /\ Unwrap(call).ret = None
    /\ call' = Some([Unwrap(call) EXCEPT
                        !.ret = Some(default_claude_base_dirs(Unwrap(call).env,
                                                              Unwrap(call).fs))])
    /\ UNCHANGED idleVars

InitDirs ==
    /\ Idle
    /\ \E env \in Environments, fs \in FileSystems :
          call = Some([fn |-> "default_claude_base_dirs", env |-> env, fs |-> fs,
                       ret |-> None])

SpecDirs == InitDirs /\ [][CallDefaultClaudeBaseDirs]_vars

-----------------------------------------------------------------------------
(* Passes over events whose timestamps have every form *)

\* The timestamp texts: an all-digit text, a bare date, a slash date, a
\* date-time without offset late in the day, and an offset-qualified
\* date-time early in the day
StampTexts ==
    { Ts("digits", 2, 0, 0), Ts("dateonly", 2, 0, 0), Ts("slash", 2, 0, 0),
      Ts("naive", 2, 23, 0), Ts("rfc3339", 2, 2, 0) }

\* Complete chat-log entries without ids, one per timestamp text
StampLines == { CcEntry(Some(t), None, None, <<1>>, <<1>>, <<>>, None) : t \in StampTexts }

\* Exec-session events with a last-delta of their own, one per timestamp text
CxStampLines ==
    { CxEvent(Some(t), Some(UsageObj(<<1>>, <<0>>, <<1>>, <<0>>, <<2>>)), None)
      : t \in StampTexts }

\* The viewer's timezone, in hours east of UTC
StampZones == {-8, 0, 8}

StampRanges == { Range(DateText(1), DateText(1)), Range(DateText(2), DateText(2)) }

InitStamp ==
    InitWith({"cc_range", "cx_range"}, StampLines, CxStampLines, FALSE,
             StampRanges, StampZones, {{}})

\* The ranged passes
NextRanged ==
    \/ ClaudeStartRange
    \/ ClaudeRangeLine
    \/ CodexStartRange
    \/ CodexRangeLine
    \/ NextFile
    \/ Finish

SpecStamp == InitStamp /\ [][NextRanged]_vars

-----------------------------------------------------------------------------
(* A ranged pass, then the all-time pass over the same files *)

\* The caller has the result of a ranged pass and calls the all-time pass of
\* the same source on the same file list
CallAllTime ==
    /\ pc = "done" /\ prior = None
    /\ IsRanged /\ RangeIsValid
    /\ prior' = Some([ total_tokens |-> totals.total_tokens,
                       since |-> Since, until |-> Until,
                       counted |-> {<<counted[i].file, counted[i].line>> :
                                      i \in 1..Len(counted)} ])
    /\ mode' = IF IsClaude THEN "cc_all" ELSE "cx_all"
    /\ range' = NoRange
    /\ pc' = "start"
    /\ order' = <<>>
    /\ fi' = 0
    /\ li' = 0
    /\ processed_hashes' = {}
    /\ totals' = UsageTotalsDefault
    /\ previous_totals' = None
    /\ current_model' = None
    /\ current_model_is_fallback' = FALSE
    /\ model_tokens' = {}
    /\ counted' = <<>>
    /\ last_event' = None
    /\ UNCHANGED << files, tz, dataset, profile, call, cacheVars >>

\* Exec-session lines: cumulative snapshots of an early instant, of no
\* instant and of a late instant, one more in which only total_tokens has
\* grown, and a model declaration
CxBothLines ==
    { CxContext(Some(<<"gpt-5", "-codex">>)),
      CxEvent(Some(TsEarly), None, Some(UsageObj(<<3>>, <<1>>, <<2>>, <<0>>, <<5>>))),
      CxEvent(None, None, Some(UsageObj(<<4>>, <<1>>, <<2>>, <<0>>, <<6>>))),
      CxEvent(Some(TsLate), None, Some(UsageObj(<<5>>, <<1>>, <<3>>, <<0>>, <<8>>))),
      CxEvent(Some(TsLate), None, Some(UsageObj(<<5>>, <<1>>, <<3>>, <<0>>, <<9>>))) }

\* Ranged passes over day 2 seen from UTC-8, where the early instant falls
\* on day 1
InitBoth ==
    InitWith({"cc_range", "cx_range"}, AgainLines, CxBothLines, FALSE,
             {Range(DateText(2), DateText(2))}, {-8}, {{}})

NextBoth ==
    \/ ClaudeStartRange
    \/ ClaudeStartAllTime
    \/ ClaudeRangeLine
    \/ ClaudeAllTimeLine
    \/ CodexStartRange
    \/ CodexStartAllTime
    \/ CodexRangeLine
    \/ CodexAllTimeLine
    \/ NextFile
    \/ Finish
    \/ CallAllTime

SpecBoth == InitBoth /\ [][NextBoth]_vars

-----------------------------------------------------------------------------
(* Chat-log entries whose ids hold the separator of the dedupe key *)

\* Entries of one instant: message id "a:b" with request id "c", message id
\* "a" with request id "b:c", and message id "a" with request id "c"
ColonLines ==
    { CcEntry(Some(TsLate), Some(<<"a", ":", "b">>), Some(<<"c">>), <<1>>, <<0>>, <<>>, None),
      CcEntry(Some(TsLate), Some(<<"a">>), Some(<<"b", ":", "c">>), <<2>>, <<0>>, <<>>, None),
      CcEntry(Some(TsLate), Some(<<"a">>), Some(<<"c">>), <<3>>, <<0>>, <<>>, None) }

InitColon ==
    InitWith({"cc_range", "cc_all"}, ColonLines, {}, FALSE,
             {Range(DateText(2), DateText(2))}, {0}, {{}})

SpecColon == InitColon /\ [][NextClaude]_vars

-----------------------------------------------------------------------------
(* Concurrent queries through the caches *)

\* The variables of a pass and of a call, which a query through the caches
\* leaves alone (its pass is reduced to PassTotals)
aggVars == << mode, files, range, tz, dataset, pc, profile, order, fi, li, passVars,
              prior, call >>

\* The positions at which a thread is inside, or waits to enter, a lock block
LockedPcs == {"slot_check", "files_check", "files_write", "slot_write"}

\* The Mutex that guards the block the thread is at
LockOf(th) ==
    IF th.pc \in {"slot_check", "slot_write"} THEN <<"slot", SlotOf(th.src, th.ds)>>
    ELSE <<"files", th.src>>

Holds(t) == threads[t].pc \in LockedPcs /\ locks[LockOf(threads[t])] = t

\* The index of the recomputation of cache `key` that thread t has under way
OpenRecomputation(t, key) ==
    CHOOSE i \in 1..Len(recomputed) :
        /\ recomputed[i].thread = t /\ recomputed[i].key = key
        /\ \A j \in (i + 1)..Len(recomputed) :
              ~(recomputed[j].thread = t /\ recomputed[j].key = key)

\* default_claude_base_dirs()? / default_codex_session_dirs() and the
\* is_empty test of the exec-session entry points: where the thread is after
\* them. They read the environment and nothing of the caches.
Resolved_MutCachesFailure(th, lists) ==
    { IF ~r.ok \/ r.dirs = <<>>
      THEN [th EXCEPT !.pc = IF th.op = "all" THEN "slot_write" ELSE "done",
                      !.ret = Some(UsageTotalsDefault)]
      ELSE [th EXCEPT !.pc = "files_check", !.dirs = r.dirs]
      : r \in Resolutions(th.src, lists) }
Resolved(th, lists) ==
    { IF ~r.ok THEN [th EXCEPT !.pc = "done", !.err = TRUE]
      ELSE IF r.dirs = <<>>
           THEN [th EXCEPT !.pc = IF th.op = "all" THEN "slot_write" ELSE "done",
                           !.ret = Some(UsageTotalsDefault)]
           ELSE [th EXCEPT !.pc = "files_check", !.dirs = r.dirs]
      : r \in Resolutions(th.src, lists) }

\* A query enters (the first one on thread 1, the threads being alike):
\* load_cc_totals_with_pricing, load_cx_totals_with_pricing,
\* load_cc_totals_all_time_cached_with_pricing or
\* load_cx_totals_all_time_cached_with_pricing, with some mapping. A ranged
\* query resolves its directories.
StartCall(t, ops, srcs, mappings, lists) ==
    /\ threads[t].pc \in {"idle", "done"}
    /\ started < MaxCalls
    /\ started = 0 => t = 1
    /\ \E op \in ops, src \in srcs, ds \in mappings :
          LET th == [IdleThread EXCEPT !.pc = "slot_check", !.op = op, !.src = src,
                                       !.ds = ds]
          IN  \E next \in (IF op = "all" THEN {th} ELSE Resolved(th, lists)) :
                 threads' = [threads EXCEPT ![t] = next]
    /\ started' = started + 1
    /\ UNCHANGED << aggVars, now, logs, files_cache, slots, locks, recomputed >>

\* cache.lock()
Lock(t) ==
    /\ threads[t].pc \in LockedPcs
    /\ locks[LockOf(threads[t])] = 0
    /\ locks' = [locks EXCEPT ![LockOf(threads[t])] = t]
    /\ UNCHANGED << aggVars, now, logs, files_cache, slots, threads, started, recomputed >>

\* The first block of an all-time query: return the cached totals if they
\* are fresh, and drop the guard; else resolve the directories
SlotCheck_MutKeepsGuard(t, lists) ==
    LET th == threads[t]
        key == SlotOf(th.src, th.ds)
    IN  /\ th.pc = "slot_check" /\ Holds(t)
        /\ IF SlotHit(slots[key], now)
           THEN /\ threads' = [threads EXCEPT ![t].pc = "done",
                                              ![t].ret = slots[key].totals]
                /\ locks' = [locks EXCEPT ![<<"slot", key>>] = 0]
                /\ UNCHANGED recomputed
           ELSE /\ \E next \in Resolved(th, lists) : threads' = [threads EXCEPT ![t] = next]
                /\ UNCHANGED locks
                /\ recomputed' = Append(recomputed, [key |-> <<"slot", key>>, thread |-> t,
                                                     value |-> None])
        /\ UNCHANGED << aggVars, now, logs, files_cache, slots, started >>
SlotCheck(t, lists) ==
    LET th == threads[t]
        key == SlotOf(th.src, th.ds)
    IN  /\ th.pc = "slot_check" /\ Holds(t)
        /\ locks' = [locks EXCEPT ![<<"slot", key>>] = 0]
        /\ IF SlotHit(slots[key], now)
           THEN /\ threads' = [threads EXCEPT ![t].pc = "done",
                                              ![t].ret = slots[key].totals]
                /\ UNCHANGED recomputed
           ELSE /\ \E next \in Resolved(th, lists) : threads' = [threads EXCEPT ![t] = next]
                /\ recomputed' = Append(recomputed, [key |-> <<"slot", key>>, thread |-> t,
                                                     value |-> None])
        /\ UNCHANGED << aggVars, now, logs, files_cache, slots, started >>

\* The first block of usage_files_from_claude_base_dirs /
\* session_files_from_dirs: return the cached list if it is for the same
\* directories and fresh, and drop the guard. (The test for an empty
\* directory list before it never succeeds: Resolved hands over no empty list.)
FilesCheck(t) ==
    LET th == threads[t]
    IN  /\ th.pc = "files_check" /\ Holds(t)
        /\ locks' = [locks EXCEPT ![<<"files", th.src>>] = 0]
        /\ IF FilesCacheHit(files_cache[th.src], th.src, th.dirs, now)
           THEN /\ threads' = [threads EXCEPT ![t].pc = "aggregate",
                                              ![t].files = files_cache[th.src].files]
                /\ UNCHANGED recomputed
           ELSE /\ threads' = [threads EXCEPT ![t].pc = "scan", ![t].di = 1]
                /\ recomputed' = Append(recomputed, [key |-> <<"files", th.src>>,
                                                     thread |-> t, value |-> None])
        /\ UNCHANGED << aggVars, now, logs, files_cache, slots, started >>

\* glob of one directory of the list: the log file in it, if there is one
ScanDir(t) ==
    LET th == threads[t]
        d == th.dirs[th.di]
    IN  /\ th.pc = "scan"
        /\ threads' = [threads EXCEPT
              ![t].files = IF logs[<<th.src, d>>] > 0 THEN Append(th.files, d) ELSE th.files,
              ![t].di = th.di + 1,
              ![t].pc = IF th.di = Len(th.dirs) THEN "files_write" ELSE "scan"]
        /\ UNCHANGED << aggVars, now, logs, files_cache, slots, locks, started, recomputed >>

FilesCacheWrite_MutKeepsDirs(cache, dirs, at, fs) ==
    [base_dirs |-> IF cache.base_dirs = <<>> THEN dirs ELSE cache.base_dirs,
     scanned_at |-> Some(at), files |-> fs]
FilesCacheWrite(cache, dirs, at, fs) ==
    [base_dirs |-> dirs, scanned_at |-> Some(at), files |-> fs]

\* The last block of the discovery: overwrite the cache with the scan
FilesWrite(t) ==
    LET th == threads[t]
        i == OpenRecomputation(t, <<"files", th.src>>)
    IN  /\ th.pc = "files_write" /\ Holds(t)
        /\ locks' = [locks EXCEPT ![<<"files", th.src>>] = 0]
        /\ files_cache' = [files_cache EXCEPT ![th.src] =
                              FilesCacheWrite(files_cache[th.src], th.dirs, now, th.files)]
        /\ recomputed' = [recomputed EXCEPT ![i].value =
                              Some([base_dirs |-> th.dirs, files |-> th.files])]
        /\ threads' = [threads EXCEPT ![t].pc = "aggregate", ![t].di = 0]
        /\ UNCHANGED << aggVars, now, logs, slots, started >>

\* load_*_totals_from_files[_all_time]_with_pricing over the list, which is
\* dropped with the directory list when the pass returns
Aggregate(t) ==
    LET th == threads[t]
    IN  /\ th.pc = "aggregate"
        /\ threads' = [threads EXCEPT
              ![t].ret = Some(PassTotals(th.src, th.files, logs, th.ds)),
              ![t].pc = IF th.op = "all" THEN "slot_write" ELSE "done",
              ![t].dirs = <<>>, ![t].di = 0, ![t].files = <<>>]
        /\ UNCHANGED << aggVars, now, logs, files_cache, slots, locks, started, recomputed >>

\* The last block of an all-time query: overwrite the cache with the totals
SlotWrite(t) ==
    LET th == threads[t]
        key == SlotOf(th.src, th.ds)
        i == OpenRecomputation(t, <<"slot", key>>)
    IN  /\ th.pc = "slot_write" /\ Holds(t)
        /\ locks' = [locks EXCEPT ![<<"slot", key>>] = 0]
        /\ slots' = [slots EXCEPT ![key] = [computed_at |-> Some(now), totals |-> th.ret]]
        /\ recomputed' = [recomputed EXCEPT ![i].value = th.ret]
        /\ threads' = [threads EXCEPT ![t].pc = "done"]
        /\ UNCHANGED << aggVars, now, logs, files_cache, started >>

LogTotal(contents) ==
    contents[<<"cc", "a">>] + contents[<<"cc", "b">>] + contents[<<"cx", "a">>]

\* A tool appends an entry to a log file, or creates the file. Growth shows
\* when a thread reads the file, so it is taken just before a read.
LogGrows ==
    /\ \E f \in LogFiles :
          /\ \E t \in Threads :
                /\ threads[t].src = f[1]
                /\ \/ threads[t].pc = "scan" /\ threads[t].dirs[threads[t].di] = f[2]
                   \/ threads[t].pc = "aggregate"
                      /\ \E i \in 1..Len(threads[t].files) : threads[t].files[i] = f[2]
          /\ LogTotal(logs) < MaxLog
          /\ logs' = [logs EXCEPT ![f] = logs[f] + 1]
    /\ UNCHANGED << aggVars, now, files_cache, slots, locks, threads, started, recomputed >>

\* Time passes. The clock is read inside the lock blocks only, so time is
\* taken to pass just before a block runs.
Tick ==
    /\ \E t \in Threads : Holds(t)
    /\ \E at \in Instants : at > now /\ now' = at
    /\ UNCHANGED << aggVars, logs, files_cache, slots, locks, threads, started, recomputed >>

InitCache == NoPass /\ call = None /\ NoCalls

\* Ranged queries: the file lists
NextFiles ==
    \/ \E t \in Threads : StartCall(t, {"range"}, Sources, {{}}, DirLists)
    \/ \E t \in Threads : Lock(t)
    \/ \E t \in Threads : FilesCheck(t)
    \/ \E t \in Threads : ScanDir(t)
    \/ \E t \in Threads : FilesWrite(t)
    \/ \E t \in Threads : Aggregate(t)
    \/ LogGrows
    \/ Tick

SpecFiles == InitCache /\ [][NextFiles]_vars

\* All-time queries: the cached totals
NextSlots ==
    \/ \E t \in Threads : StartCall(t, {"all"}, Sources, Mappings, {<<>>, <<"a">>})
    \/ \E t \in Threads : Lock(t)
    \/ \E t \in Threads : SlotCheck(t, {<<>>, <<"a">>})
    \/ \E t \in Threads : FilesCheck(t)
    \/ \E t \in Threads : ScanDir(t)
    \/ \E t \in Threads : FilesWrite(t)
    \/ \E t \in Threads : Aggregate(t)
    \/ \E t \in Threads : SlotWrite(t)
    \/ LogGrows
    \/ Tick

SpecSlots == InitCache /\ [][NextSlots]_vars

\* Ranged and all-time queries of the chat logs
NextCache ==
    \/ \E t \in Threads : StartCall(t, {"range", "all"}, {"cc"}, {{}, {1}}, {<<"a">>})
    \/ \E t \in Threads : Lock(t)
    \/ \E t \in Threads : SlotCheck(t, {<<"a">>})
    \/ \E t \in Threads : FilesCheck(t)
    \/ \E t \in Threads : ScanDir(t)
    \/ \E t \in Threads : FilesWrite(t)
    \/ \E t \in Threads : Aggregate(t)
    \/ \E t \in Threads : SlotWrite(t)
    \/ LogGrows
    \/ Tick

SpecCache == InitCache /\ [][NextCache]_vars

\* What thread t does of its own
ThreadStep(t) ==
    \/ Lock(t)
    \/ SlotCheck(t, {<<"a">>})
    \/ FilesCheck(t)
    \/ ScanDir(t)
    \/ FilesWrite(t)
    \/ Aggregate(t)
    \/ SlotWrite(t)

\* The same queries on threads that the scheduler keeps running: a thread
\* that can take a step, or whose Mutex stays free, gets to take it
SpecLive == SpecCache /\ \A t \in Threads : WF_vars(ThreadStep(t))

-----------------------------------------------------------------------------
(* Vocabulary of the properties *)

Positions == {<<f, l>> \in (1..Len(files)) \X (1..MaxLines + 1) :
                 files[f].readable /\ l <= Len(files[f].lines)}
LineAt(p) == files[p[1]].lines[p[2]]

CountedPositions == {<<counted[i].file, counted[i].line>> : i \in 1..Len(counted)}

\* The pass has finished the line at p
Passed(p) ==
    /\ \E i \in 1..Len(order) : order[i] = p[1]
    /\ LET i == CHOOSE j \in 1..Len(order) : order[j] = p[1]
       IN  \/ pc = "done"
           \/ pc \in {"scan", "panicked"} /\ (i < fi \/ (i = fi /\ p[2] < li))

\* The line at p is a valid chat-log entry
IsValidEntry(p) ==
    /\ LineAt(p).kind = "json"
    /\ HasUsageText(LineAt(p))
    /\ IsSome(parse_usage_entry(LineAt(p)))
EntryAt(p) == Unwrap(parse_usage_entry(LineAt(p)))

\* The ids of an entry as the dedupe key reads them: present and non-empty
HasBothIds(p) ==
    /\ IsSome(as_non_empty_string(LineAt(p).id))
    /\ IsSome(as_non_empty_string(LineAt(p).requestId))
KeyAt(p) ==
    Unwrap(as_non_empty_string(LineAt(p).id)) \o <<":">>
    \o Unwrap(as_non_empty_string(LineAt(p).requestId))

\* The local calendar date of a timestamp text, when it parses
ParsesAt(ts) == IsSome(parse_js_timestamp(ts, tz))
LocalDateOf(ts) == Unwrap(parse_js_timestamp(ts, tz)).local_date

\* A chat-log entry's date lies in a valid range
InRangeEntry(p) ==
    /\ range.since_yyyymmdd.ok /\ range.until_yyyymmdd.ok
    /\ ParsesAt(EntryAt(p).timestamp)
    /\ range.since_yyyymmdd.day <= LocalDateOf(EntryAt(p).timestamp)
    /\ LocalDateOf(EntryAt(p).timestamp) <= range.until_yyyymmdd.day

\* A valid entry that the pass may count: any for all-time, in range for ranged
Eligible(p) == IsValidEntry(p) /\ (mode = "cc_range" => InRangeEntry(p))

\* The running totals are what the counted entries added
RECURSIVE SatSum(_)
SatSum(s) ==
    IF s = <<>> THEN 0
    ELSE LET rest == SatSum(SubSeq(s, 1, Len(s) - 1))
         IN  IF rest + s[Len(s)] > U64Max THEN U64Max ELSE rest + s[Len(s)]

TotalsAreCounted ==
    /\ totals.total_tokens = SatSum([i \in 1..Len(counted) |-> counted[i].tokens])
    /\ IsClaude =>
          totals.cost_usd = SeqSum([i \in 1..Len(counted) |-> counted[i].cost])

-----------------------------------------------------------------------------
(* C1 *)

\* C1: in a chat-log pass, ranged or all-time, at most one entry per dedupe
\* key message_id:request_id is added to total_tokens and cost_usd: no two
\* counted entries share a key, whatever their token counts, cost or file,
\* and the totals hold nothing but the counted entries.
C1_AtMostOnePerKey ==
    IsClaude =>
        /\ TotalsAreCounted
        /\ \A i, j \in 1..Len(counted) :
              LET p == <<counted[i].file, counted[i].line>>
                  q == <<counted[j].file, counted[j].line>>
              IN  (i /= j /\ HasBothIds(p) /\ HasBothIds(q)) => KeyAt(p) /= KeyAt(q)

\* A finished pass over two files that both hold an eligible entry with the
\* same key and different counts, of which one was counted
C1_Witness ==
    /\ IsClaude /\ pc = "done"
    /\ \E p, q \in Positions :
          /\ p[1] /= q[1]
          /\ Eligible(p) /\ Eligible(q)
          /\ HasBothIds(p) /\ HasBothIds(q) /\ KeyAt(p) = KeyAt(q)
          /\ EntryAt(p).input_tokens /= EntryAt(q).input_tokens
          /\ p \in CountedPositions /\ q \notin CountedPositions

-----------------------------------------------------------------------------
(* C2 *)

\* C2: a chat-log entry whose message id or request id is absent or empty is
\* never suppressed: once the pass is past it, every eligible entry without
\* both ids is counted, also after an identical entry; and it registers no
\* key, so every key in the seen-key set is the key of a counted entry that
\* has both ids.
C2_KeylessAlwaysCounted ==
    IsClaude =>
        /\ \A p \in Positions :
              (Passed(p) /\ Eligible(p) /\ ~HasBothIds(p) /\ pc /= "panicked")
                  => p \in CountedPositions
        /\ \A h \in processed_hashes :
              \E p \in CountedPositions : HasBothIds(p) /\ KeyAt(p) = h

\* A finished pass that counted two identical entries without a request id
C2_Witness ==
    /\ IsClaude /\ pc = "done"
    /\ \E p, q \in CountedPositions :
          /\ p /= q
          /\ LineAt(p) = LineAt(q)
          /\ ~HasBothIds(p)
          /\ LineAt(p).id /= None

-----------------------------------------------------------------------------
(* C5 *)

\* The four counts of the counted entries, as a mathematical sum
CountedTokenSum ==
    SeqSum([i \in 1..Len(counted) |->
               LET e == EntryAt(<<counted[i].file, counted[i].line>>)
               IN  e.input_tokens + e.output_tokens + e.cache_creation_input_tokens
                   + e.cache_read_input_tokens])

\* C5: for any sequence of counted chat-log entries total_tokens is
\* min(2^64 - 1, sum of input + output + cache-creation + cache-read over the
\* counted entries): the pass never panics and never wraps, also when the
\* four counts of one entry sum to more than 2^64 - 1.
C5_SaturatingTotal ==
    IsClaude =>
        /\ pc /= "panicked"
        /\ profile = "any"
        /\ totals.total_tokens = Min(U64Max, CountedTokenSum)

-----------------------------------------------------------------------------
(* C10 *)

\* The instants of the parseable timestamps of a file's JSON lines
TimestampsOfFile(f) ==
    IF ~files[f].readable THEN {}
    ELSE { Unwrap(parse_js_timestamp(Unwrap(files[f].lines[l].timestamp), tz)).millis :
             l \in { k \in 1..Len(files[f].lines) :
                       /\ files[f].lines[k].kind = "json"
                       /\ IsSome(files[f].lines[k].timestamp)
                       /\ ParsesAt(Unwrap(files[f].lines[k].timestamp)) } }
EarliestOfFile(f) == CHOOSE m \in TimestampsOfFile(f) : \A n \in TimestampsOfFile(f) : m <= n

\* File a must come before file b: a has an earliest timestamp and b has
\* none or a larger one
MustPrecede(a, b) ==
    /\ TimestampsOfFile(a) /= {}
    /\ TimestampsOfFile(b) = {} \/ EarliestOfFile(a) < EarliestOfFile(b)

\* C10: a ranged chat-log pass processes the files in ascending order of
\* their earliest parseable timestamp, files without one last; so of the
\* in-range entries that share a dedupe key the one counted is the first of
\* its file, and no file with a smaller earliest timestamp holds another,
\* wherever the files stand in the input list.
C10_EarliestFileWins ==
    (mode = "cc_range" /\ pc /= "start" /\ range.since_yyyymmdd.ok /\ range.until_yyyymmdd.ok) =>
        /\ Len(order) = Len(files)
        /\ {order[i] : i \in 1..Len(order)} = 1..Len(files)
        /\ \A i, j \in 1..Len(order) : i < j => ~MustPrecede(order[j], order[i])
        /\ \A p \in CountedPositions, q \in Positions :
              (/\ q /= p /\ HasBothIds(p) /\ Eligible(q) /\ HasBothIds(q)
               /\ KeyAt(q) = KeyAt(p))
                  => IF q[1] = p[1] THEN p[2] < q[2]
                     ELSE ~MustPrecede(q[1], p[1])

\* A finished ranged pass over two files that hold the same key in range,
\* the second of the list with the smaller earliest timestamp: its entry is
\* the one counted
C10_Witness ==
    /\ mode = "cc_range" /\ pc = "done" /\ Len(files) = 2
    /\ MustPrecede(2, 1)
    /\ TimestampsOfFile(1) /= {}
    /\ \E p, q \in Positions :
          /\ p[1] = 2 /\ q[1] = 1
          /\ Eligible(p) /\ Eligible(q)
          /\ HasBothIds(p) /\ HasBothIds(q) /\ KeyAt(p) = KeyAt(q)
          /\ p \in CountedPositions /\ q \notin CountedPositions

-----------------------------------------------------------------------------
(* Vocabulary of the exec-session properties *)

\* The line is a usage (token_count) event
IsUsageEvent(l) == l.kind = "json" /\ l.type = "event_msg" /\ l.payload_type = "token_count"

\* A usage object as the pass reads it, a wrapped `input + output` included
SnapshotOf(value) ==
    LET obj == Unwrap(value)
        total == ensure_u64(obj.total_tokens)
    IN  RawUsage(ensure_u64(obj.input_tokens),
                 ensure_u64(IF obj.cached_input_tokens /= <<>> THEN obj.cached_input_tokens
                            ELSE obj.cache_read_input_tokens),
                 ensure_u64(obj.output_tokens),
                 ensure_u64(obj.reasoning_output_tokens),
                 IF total > 0 THEN total
                 ELSE (ensure_u64(obj.input_tokens) + ensure_u64(obj.output_tokens))
                      % (U64Max + 1))

\* The lines before line l of file f that are usage events with a cumulative
\* snapshot; with needTimestamp, those among them that have a timestamp
SnapshotLinesBefore(f, l, needTimestamp) ==
    { k \in 1..(l - 1) :
        /\ k <= Len(files[f].lines)
        /\ IsUsageEvent(files[f].lines[k])
        /\ IsSome(files[f].lines[k].total_token_usage)
        /\ needTimestamp => IsSome(files[f].lines[k].timestamp) }

\* The latest cumulative snapshot before line l of file f
LatestSnapshotBefore(f, l, needTimestamp) ==
    LET ks == SnapshotLinesBefore(f, l, needTimestamp)
    IN  IF ks = {} THEN None
        ELSE Some(SnapshotOf(files[f].lines[CHOOSE k \in ks : \A j \in ks : j <= k]
                                 .total_token_usage))

-----------------------------------------------------------------------------
(* C3 *)

\* The delta rule of an exec-session usage event, the previous snapshot being
\* the latest one earlier in the file (needTimestamp: among the events that
\* have a timestamp): a last-delta object is the delta; otherwise the delta
\* is max(0, current - previous) in each category, previous 0 when there is
\* none; the counted tokens are those of the delta.
DeltaFromSnapshot(needTimestamp) ==
    (~IsClaude /\ IsSome(last_event)) =>
        LET e == Unwrap(last_event)
            l == files[e.file].lines[e.line]
            prev == LatestSnapshotBefore(e.file, e.line, needTimestamp)
            p == IF IsSome(prev) THEN Unwrap(prev) ELSE RawUsage(0, 0, 0, 0, 0)
            cur == SnapshotOf(l.total_token_usage)
        IN  /\ IsSome(l.last_token_usage) => e.raw = Some(SnapshotOf(l.last_token_usage))
            /\ (l.last_token_usage = None /\ IsSome(l.total_token_usage)) =>
                  e.raw = Some(RawUsage(Max(0, cur.input_tokens - p.input_tokens),
                                        Max(0, cur.cached_input_tokens - p.cached_input_tokens),
                                        Max(0, cur.output_tokens - p.output_tokens),
                                        Max(0, cur.reasoning_output_tokens
                                               - p.reasoning_output_tokens),
                                        Max(0, cur.total_tokens - p.total_tokens)))
            /\ (l.last_token_usage = None /\ l.total_token_usage = None) => e.raw = None
            /\ \A i \in 1..Len(counted) :
                  (counted[i].file = e.file /\ counted[i].line = e.line) =>
                      /\ counted[i].delta.input_tokens = Unwrap(e.raw).input_tokens
                      /\ counted[i].delta.output_tokens = Unwrap(e.raw).output_tokens
                      /\ counted[i].delta.reasoning_output_tokens
                            = Unwrap(e.raw).reasoning_output_tokens

\* C3: for a usage event with only a cumulative snapshot the delta is, in
\* each of input, cached, output, reasoning and total, max(0, current -
\* previous), previous being the latest cumulative snapshot earlier in the
\* same file or 0 in every category when there is none; for an event with a
\* last-delta object the delta is that object, whatever the snapshot.
C3_DeltaFromSnapshot == DeltaFromSnapshot(FALSE)

\* The same rule with, in a ranged pass, the previous snapshot taken among
\* the events that have a timestamp: the rule the passes follow
DeltaFromSnapshotRead == DeltaFromSnapshot(IsRanged)

\* A snapshot-only event after an earlier snapshot of the same file, one
\* category grown and one fallen back, was counted
SnapshotDeltaCounted ==
    /\ ~IsClaude /\ IsSome(last_event)
    /\ LET e == Unwrap(last_event)
           l == files[e.file].lines[e.line]
           prev == LatestSnapshotBefore(e.file, e.line, IsRanged)
       IN  /\ l.last_token_usage = None /\ IsSome(l.total_token_usage)
           /\ IsSome(prev)
           /\ SnapshotOf(l.total_token_usage).input_tokens > Unwrap(prev).input_tokens
           /\ SnapshotOf(l.total_token_usage).output_tokens < Unwrap(prev).output_tokens
           /\ <<e.file, e.line>> \in CountedPositions

-----------------------------------------------------------------------------
(* C4 *)

\* C4: in the ranged and in the all-time exec-session pass every usage event
\* that carries a cumulative snapshot makes it the previous snapshot for the
\* next event of the file, with or without last-delta, with or without
\* timestamp, counted or not: while a file is scanned, the previous snapshot
\* is the snapshot of the latest such event before the current line.
C4_SnapshotAlwaysKept ==
    (~IsClaude /\ pc = "scan" /\ fi <= Len(order) /\ CurFile.readable) =>
        previous_totals = LatestSnapshotBefore(order[fi], li, FALSE)

-----------------------------------------------------------------------------
(* C6 *)

\* C6: no exec-session log content makes a pass overflow: with token fields
\* in 0..2^64 - 1, the event total (input + output when total_tokens is zero
\* or absent), the delta, the running total and the per-model sums never
\* wrap and never panic.
C6_NoOverflow ==
    ~IsClaude => (pc /= "panicked" /\ profile = "any")

-----------------------------------------------------------------------------
(* C7 *)

\* C7: with valid since and until a ranged pass of either source counts an
\* event only if its timestamp parses and its local date d satisfies
\* since <= d <= until, both inclusive; with since > until nothing is
\* counted and the totals are zero.
C7_OnlyInRangeCounted ==
    (IsRanged /\ range.since_yyyymmdd.ok /\ range.until_yyyymmdd.ok) =>
        /\ totals.total_tokens = SatSum([i \in 1..Len(counted) |-> counted[i].tokens])
        /\ \A p \in CountedPositions :
              /\ IsSome(LineAt(p).timestamp)
              /\ ParsesAt(Unwrap(LineAt(p).timestamp))
              /\ range.since_yyyymmdd.day <= LocalDateOf(Unwrap(LineAt(p).timestamp))
              /\ LocalDateOf(Unwrap(LineAt(p).timestamp)) <= range.until_yyyymmdd.day
        /\ range.since_yyyymmdd.day > range.until_yyyymmdd.day =>
              (counted = <<>> /\ totals = UsageTotalsDefault)

\* A finished ranged chat-log pass with since = until that counted an entry
\* of that day and left out a valid entry of the day before
C7_Witness ==
    /\ mode = "cc_range" /\ pc = "done"
    /\ range.since_yyyymmdd.ok /\ range.until_yyyymmdd.ok
    /\ range.since_yyyymmdd.day = range.until_yyyymmdd.day
    /\ \E p \in CountedPositions :
          LocalDateOf(Unwrap(LineAt(p).timestamp)) = range.since_yyyymmdd.day
    /\ \E q \in Positions \ CountedPositions :
          /\ IsValidEntry(q)
          /\ ParsesAt(EntryAt(q).timestamp)
          /\ LocalDateOf(EntryAt(q).timestamp) = range.since_yyyymmdd.day - 1

-----------------------------------------------------------------------------
(* C8 *)

\* C8: when since or until is not a valid YYYYMMDD date a ranged query of
\* either source returns total_tokens = 0 and cost_usd = 0 whatever the
\* files hold: nothing is scanned or counted on the strength of the valid
\* bound alone.
C8_MalformedRangeZero ==
    (IsRanged /\ (~range.since_yyyymmdd.ok \/ ~range.until_yyyymmdd.ok)) =>
        /\ pc \in {"start", "done"}
        /\ totals = UsageTotalsDefault
        /\ counted = <<>>

\* A ranged exec-session query that returned with a malformed since, over a
\* file with a usage event dated on the valid until day
C8_Witness ==
    /\ mode = "cx_range" /\ pc = "done"
    /\ ~range.since_yyyymmdd.ok /\ range.until_yyyymmdd.ok
    /\ \E p \in Positions :
          /\ IsUsageEvent(LineAt(p))
          /\ IsSome(LineAt(p).last_token_usage)
          /\ IsSome(LineAt(p).timestamp)
          /\ ParsesAt(Unwrap(LineAt(p).timestamp))
          /\ LocalDateOf(Unwrap(LineAt(p).timestamp)) = range.until_yyyymmdd.day

-----------------------------------------------------------------------------
(* C9 *)

\* A usage event whose last-delta object is non-zero
HasNonZeroLast(l) ==
    /\ IsUsageEvent(l)
    /\ IsSome(l.last_token_usage)
    /\ \/ SnapshotOf(l.last_token_usage).input_tokens > 0
       \/ SnapshotOf(l.last_token_usage).output_tokens > 0
       \/ SnapshotOf(l.last_token_usage).reasoning_output_tokens > 0

\* A chat-log entry complete but for what its timestamp text says: a
\* non-empty timestamp of any form, a message, a usage object, input and
\* output tokens
IsEntryWithSomeTimestamp(l) ==
    /\ l.kind = "json"
    /\ IsSome(l.timestamp) /\ Unwrap(l.timestamp).form /= "empty"
    /\ l.message /\ l.usage_at /= "none"
    /\ IsSome(first_u64_token(l.input_tokens, l.prompt_tokens))
    /\ IsSome(first_u64_token(l.output_tokens, l.completion_tokens))

\* C9: an all-time pass counts events whatever their timestamp, a ranged
\* pass never counts one whose timestamp is absent or unparseable. All-time
\* chat-log: every valid entry the pass is past is counted unless an entry
\* with its key was; all-time exec-session: every event with a non-zero
\* last-delta is counted, with or without timestamp; ranged, either source:
\* every counted event has a timestamp that parses.
C9_AllTimeIgnoresTimestamp ==
    /\ (mode = "cc_all" /\ pc /= "panicked") =>
          \A p \in Positions :
             (Passed(p) /\ IsEntryWithSomeTimestamp(LineAt(p))) =>
                 \/ p \in CountedPositions
                 \/ /\ HasBothIds(p)
                    /\ \E q \in CountedPositions \ {p} : HasBothIds(q) /\ KeyAt(q) = KeyAt(p)
    /\ (mode = "cx_all" /\ pc /= "panicked") =>
          \A p \in Positions :
             (Passed(p) /\ HasNonZeroLast(LineAt(p))) => p \in CountedPositions
    /\ IsRanged =>
          \A p \in CountedPositions :
             IsSome(LineAt(p).timestamp) /\ ParsesAt(Unwrap(LineAt(p).timestamp))

\* A finished all-time exec-session pass that counted a usage event without
\* any timestamp
C9_Witness ==
    /\ mode = "cx_all" /\ pc = "done"
    /\ \E p \in CountedPositions : LineAt(p).timestamp = None

\* A finished all-time chat-log pass that counted an entry whose timestamp
\* is non-empty and does not parse
C9_WitnessChatLog ==
    /\ mode = "cc_all" /\ pc = "done"
    /\ \E p \in CountedPositions :
          IsSome(LineAt(p).timestamp) /\ ~ParsesAt(Unwrap(LineAt(p).timestamp))

-----------------------------------------------------------------------------
(* C11 *)

\* The second call of a pass returned, and so did the first
BothReturned == pc = "done" /\ IsSome(prior)

\* The second call counted the entries the first counted, for the same total
SameAsPrior ==
    /\ totals.total_tokens = Unwrap(prior).total_tokens
    /\ CountedBy(Unwrap(prior).perm) = Unwrap(prior).counted

\* C11: the result of a ranged chat-log pass does not depend on the order
\* of the file list: for every set of files and every range, every
\* permutation of the list yields the same total_tokens and the same set of
\* counted entries.
C11_RangedOrderIndependent ==
    (mode = "cc_range" /\ BothReturned) => SameAsPrior

-----------------------------------------------------------------------------
(* C12 *)

\* C12: the all-time chat-log pass resolves duplicates like a ranged pass:
\* it processes the files in ascending order of earliest parseable
\* timestamp, so its totals do not depend on the order of the file list and
\* the occurrence counted for a key is the one of the file with the
\* smallest earliest timestamp.
C12_AllTimeSortsFirst ==
    /\ (mode = "cc_all" /\ pc /= "start") =>
          /\ \A i, j \in 1..Len(order) : i < j => ~MustPrecede(order[j], order[i])
          /\ \A p \in CountedPositions, q \in Positions :
                (/\ q /= p /\ HasBothIds(p) /\ IsValidEntry(q) /\ HasBothIds(q)
                 /\ KeyAt(q) = KeyAt(p))
                    => (q[1] /= p[1] => ~MustPrecede(q[1], p[1]))
    /\ (mode = "cc_all" /\ BothReturned) => SameAsPrior

-----------------------------------------------------------------------------
(* C16 *)

\* C16: at the start of every exec-session file the previous snapshot and
\* the current declared model are empty; no event's delta or resolved model
\* depends on another file of the pass, so a pass over the same files in
\* any order counts the same events with the same deltas and models, for
\* the same total_tokens.
C16_FileStateIsPerFile ==
    /\ (~IsClaude /\ pc = "scan" /\ li = 1) =>
          /\ previous_totals = None
          /\ current_model = None
          /\ current_model_is_fallback = FALSE
    /\ (~IsClaude /\ BothReturned) => SameAsPrior

\* Two exec-session files were passed in both orders; each holds a
\* snapshot-only event that was counted, and one of them has no model of
\* its own while the other starts with a context entry
C16_Witness ==
    /\ ~IsClaude /\ BothReturned /\ Len(files) = 2
    /\ Unwrap(prior).perm = <<2, 1>>
    /\ \E p, q \in CountedPositions :
          /\ p[1] = 1 /\ q[1] = 2
          /\ LineAt(p).last_token_usage = None
          /\ LineAt(q).last_token_usage = None
    /\ \E f \in 1..2 : files[f].lines[1].type = "turn_context"
    /\ \E c \in Unwrap(prior).counted : Unwrap(c.model) = LEGACY_FALLBACK_MODEL

-----------------------------------------------------------------------------
(* C13 *)

\* The delta of the last usage event that had a usage object, total included
LastEventDelta ==
    LET raw == Unwrap(Unwrap(last_event).raw)
    IN  [ input_tokens |-> raw.input_tokens,
          cached_input_tokens |-> Min(raw.cached_input_tokens, raw.input_tokens),
          output_tokens |-> raw.output_tokens,
          reasoning_output_tokens |-> raw.reasoning_output_tokens,
          total_tokens |-> IF raw.total_tokens > 0 THEN raw.total_tokens
                           ELSE (raw.input_tokens + raw.output_tokens) % (U64Max + 1) ]

\* C13: an exec-session usage event is discarded as zero-valued exactly when
\* its delta is zero in input, cached input, output, reasoning output and
\* total; an event whose delta has a non-zero total_tokens is counted in
\* total_tokens (all-time pass, where no date filter applies).
C13_DiscardedIffAllZero ==
    (mode = "cx_all" /\ pc /= "panicked" /\ IsSome(last_event)
        /\ IsSome(Unwrap(last_event).raw)) =>
        LET e == Unwrap(last_event)
            d == LastEventDelta
            zero == /\ d.input_tokens = 0 /\ d.cached_input_tokens = 0
                    /\ d.output_tokens = 0 /\ d.reasoning_output_tokens = 0
                    /\ d.total_tokens = 0
        IN  /\ zero <=> <<e.file, e.line>> \notin CountedPositions
            /\ \A i \in 1..Len(counted) :
                  (counted[i].file = e.file /\ counted[i].line = e.line) =>
                      counted[i].tokens = d.total_tokens

-----------------------------------------------------------------------------
(* C14 *)

\* The raw usage of the usage event at line l of file f, from the file alone
RawAt(f, l) ==
    LET ln == files[f].lines[l]
        prev == LatestSnapshotBefore(f, l, IsRanged)
        p == IF IsSome(prev) THEN Unwrap(prev) ELSE RawUsage(0, 0, 0, 0, 0)
        cur == SnapshotOf(ln.total_token_usage)
    IN  IF IsSome(ln.last_token_usage) THEN Some(SnapshotOf(ln.last_token_usage))
        ELSE IF IsSome(ln.total_token_usage)
             THEN Some(RawUsage(Max(0, cur.input_tokens - p.input_tokens),
                                Max(0, cur.cached_input_tokens - p.cached_input_tokens),
                                Max(0, cur.output_tokens - p.output_tokens),
                                Max(0, cur.reasoning_output_tokens - p.reasoning_output_tokens),
                                Max(0, cur.total_tokens - p.total_tokens)))
             ELSE None

\* The usage event at line l of file f gets as far as the resolution of its
\* model: it has a timestamp if the pass is ranged, a usage object, and a
\* delta that is not discarded
ReachesResolution(f, l) ==
    LET ln == files[f].lines[l]
    IN  /\ IsUsageEvent(ln)
        /\ IsRanged => IsSome(ln.timestamp)
        /\ IsSome(RawAt(f, l))
        /\ \/ Unwrap(RawAt(f, l)).input_tokens > 0
           \/ Unwrap(RawAt(f, l)).output_tokens > 0
           \/ Unwrap(RawAt(f, l)).reasoning_output_tokens > 0

\* The lines before line l of file f that declare a model: context entries
\* and usage events that carry one; with onlyResolved, of the usage events
\* only those that get as far as the resolution of their model
DeclaringLinesBefore(f, l, onlyResolved) ==
    { k \in 1..(l - 1) :
        /\ files[f].lines[k].kind = "json"
        /\ IsSome(extract_model(files[f].lines[k]))
        /\ \/ files[f].lines[k].type = "turn_context"
           \/ /\ IsUsageEvent(files[f].lines[k])
              /\ onlyResolved => ReachesResolution(f, k) }

\* The model of a counted event by the rule (a) own model, (b) latest
\* declared before it in the file, (c) the fallback
ModelByRule(f, l, onlyResolved) ==
    LET own == extract_model(files[f].lines[l])
        ks == DeclaringLinesBefore(f, l, onlyResolved)
    IN  IF IsSome(own) THEN Unwrap(own)
        ELSE IF ks /= {}
             THEN Unwrap(extract_model(files[f].lines[CHOOSE k \in ks : \A j \in ks : j <= k]))
             ELSE LEGACY_FALLBACK_MODEL

ModelResolution(onlyResolved) ==
    ~IsClaude =>
        /\ \A i \in 1..Len(counted) :
              counted[i].model = ModelByRule(counted[i].file, counted[i].line, onlyResolved)
        /\ (pc = "scan" /\ fi <= Len(order) /\ li > 1 /\ counted /= <<>>
              /\ counted[Len(counted)].file = order[fi]
              /\ counted[Len(counted)].line = li - 1
              /\ DeclaringLinesBefore(order[fi], li - 1, onlyResolved) = {}) =>
              current_model = Some(counted[Len(counted)].model)

\* C14: the model a counted exec-session event is attributed to is (a) the
\* model of its own payload, else (b) the model most recently declared
\* earlier in the same file by a context entry or an event, else (c) the
\* fallback gpt-5; after (a) and after (c) the file's current declared model
\* is the model used.
C14_ModelResolution == ModelResolution(FALSE)

\* The same rule, the events that declare a model being those that get as
\* far as the resolution of their model: the rule the passes follow
ModelResolutionRead == ModelResolution(TRUE)

-----------------------------------------------------------------------------
(* C15 *)

\* The counted events attributed to a model, in the order they were counted
CountedFor(model) == SelectSeq(counted, LAMBDA c : c.model = model)

\* C15: the cached-input count of every counted exec-session event is
\* min(cached, input) of its delta while total_tokens receives the delta's
\* full total; the cached input accumulated for a model is the sum of the
\* clamped counts and never exceeds the input accumulated for it, so
\* input - cached is never negative.
C15_CachedClampedToInput ==
    ~IsClaude =>
        /\ \A i \in 1..Len(counted) :
              LET raw == Unwrap(RawAt(counted[i].file, counted[i].line))
              IN  /\ counted[i].delta.cached_input_tokens =
                        (IF raw.cached_input_tokens < raw.input_tokens
                         THEN raw.cached_input_tokens ELSE raw.input_tokens)
                  /\ counted[i].tokens =
                        (IF raw.total_tokens > 0 THEN raw.total_tokens
                         ELSE (raw.input_tokens + raw.output_tokens) % (U64Max + 1))
        /\ \A mt \in model_tokens :
              /\ mt[2].cached_input_tokens <= mt[2].input_tokens
              /\ mt[2].input_tokens - mt[2].cached_input_tokens >= 0
              /\ mt[2].cached_input_tokens =
                    SatSum([i \in 1..Len(CountedFor(mt[1])) |->
                               CountedFor(mt[1])[i].delta.cached_input_tokens])
              /\ mt[2].input_tokens =
                    SatSum([i \in 1..Len(CountedFor(mt[1])) |->
                               CountedFor(mt[1])[i].delta.input_tokens])

\* A finished exec-session pass with costing on that counted an event whose
\* usage object has more cached input than input
C15_Witness ==
    /\ ~IsClaude /\ pc = "done" /\ dataset /= {}
    /\ model_tokens /= {}
    /\ \E i \in 1..Len(counted) :
          LET raw == Unwrap(RawAt(counted[i].file, counted[i].line))
          IN  /\ raw.cached_input_tokens > raw.input_tokens
              /\ counted[i].tokens > counted[i].delta.cached_input_tokens

-----------------------------------------------------------------------------
(* C19 *)

\* The cost of one token category: n tokens, base rate b, above-threshold rate a
CategoryCost(n, b, a) ==
    IF n > 200000 /\ a /= None
    THEN 200000 * (IF b = None THEN 0 ELSE b[1]) + (n - 200000) * a[1]
    ELSE n * (IF b = None THEN 0 ELSE b[1])

\* C19: chat-log tiered cost, per token category independently: n tokens
\* cost 200000*b + (n - 200000)*a when n > 200000 and a exists, n*b
\* otherwise, b being 0 when absent; the entry cost is the sum of the four
\* categories, and the threshold is never applied to their sum.
C19_TieredPerCategory ==
    (IsSome(call) /\ Unwrap(call).fn = "claude" /\ IsSome(Unwrap(call).ret)) =>
        LET t == Unwrap(call).tokens
            p == Unwrap(call).pricing
        IN  Unwrap(Unwrap(call).ret) =
                CategoryCost(t.input_tokens, p.input_cost_per_token,
                             p.input_cost_per_token_above_200k_tokens)
                + CategoryCost(t.output_tokens, p.output_cost_per_token,
                               p.output_cost_per_token_above_200k_tokens)
                + CategoryCost(t.cache_creation_input_tokens,
                               p.cache_creation_input_token_cost,
                               p.cache_creation_input_token_cost_above_200k_tokens)
                + CategoryCost(t.cache_read_input_tokens, p.cache_read_input_token_cost,
                               p.cache_read_input_token_cost_above_200k_tokens)

\* A call returned for an entry with input over the threshold billed with an
\* above rate and no base rate, output of exactly the threshold with both
\* rates, and cache reads over the threshold without an above rate
C19_Witness ==
    /\ IsSome(call) /\ Unwrap(call).fn = "claude" /\ IsSome(Unwrap(call).ret)
    /\ LET t == Unwrap(call).tokens
           p == Unwrap(call).pricing
       IN  /\ t.input_tokens = 200001
           /\ p.input_cost_per_token = None
           /\ IsSome(p.input_cost_per_token_above_200k_tokens)
           /\ t.output_tokens = 200000
           /\ IsSome(p.output_cost_per_token)
           /\ IsSome(p.output_cost_per_token_above_200k_tokens)
           /\ t.cache_read_input_tokens = 400000
           /\ IsSome(p.cache_read_input_token_cost)
           /\ p.cache_read_input_token_cost_above_200k_tokens = None
           /\ Unwrap(Unwrap(call).ret) = 5 + 200000 * 7 + 400000 * 19
                                         + CategoryCost(t.cache_creation_input_tokens,
                                              p.cache_creation_input_token_cost,
                                              p.cache_creation_input_token_cost_above_200k_tokens)

-----------------------------------------------------------------------------
(* C17 *)

\* C17: for every counted chat-log entry that carries an explicit cost c the
\* pass adds exactly c to cost_usd, whatever the entry's model, its token
\* counts and the pricing mapping; cost_usd is the sum of what the counted
\* entries added.
C17_ExplicitCostVerbatim ==
    IsClaude =>
        /\ \A i \in 1..Len(counted) :
              LET l == files[counted[i].file].lines[counted[i].line]
              IN  Len(l.costUSD) = 1 => counted[i].cost = l.costUSD[1]
        /\ totals.cost_usd = SeqSum([i \in 1..Len(counted) |-> counted[i].cost])

\* A finished chat-log pass counted an entry with an explicit cost whose
\* model the mapping prices, at another amount
C17_Witness ==
    /\ IsClaude /\ pc = "done" /\ dataset /= {}
    /\ \E i \in 1..Len(counted) :
          LET l == files[counted[i].file].lines[counted[i].line]
              e == Unwrap(parse_usage_entry(l))
          IN  /\ Len(l.costUSD) = 1
              /\ IsSome(e.model)
              /\ \E p \in find_model_pricing(dataset, Unwrap(e.model),
                                             CLAUDE_PROVIDER_PREFIXES) :
                    /\ IsSome(p)
                    /\ calculate_claude_cost_from_pricing(
                           [ input_tokens |-> e.input_tokens,
                             output_tokens |-> e.output_tokens,
                             cache_creation_input_tokens |-> e.cache_creation_input_tokens,
                             cache_read_input_tokens |-> e.cache_read_input_tokens ],
                           Unwrap(p)) /= l.costUSD[1]

-----------------------------------------------------------------------------
(* C18 *)

\* C18: when the pricing mapping of a query is empty, cost computation is
\* disabled: for either source, ranged or all-time, and any log content,
\* cost_usd is 0 while total_tokens is computed as usual.
C18_EmptyMappingNoCost ==
    dataset = {} => totals.cost_usd = 0

-----------------------------------------------------------------------------
(* C20 *)

\* The exec-session cost of token sums under a pricing record: non-cached
\* input and output at their rates, cached input at the cache-read rate or,
\* without one, at the input rate; absent rates are 0
CodexCostOf(input, cached, output, p) ==
    LET input_rate == IF p.input_cost_per_token = None THEN 0
                      ELSE p.input_cost_per_token[1]
        cached_rate == IF p.cache_read_input_token_cost = None THEN input_rate
                       ELSE p.cache_read_input_token_cost[1]
        output_rate == IF p.output_cost_per_token = None THEN 0
                       ELSE p.output_cost_per_token[1]
    IN  (IF input > cached THEN input - cached ELSE 0) * input_rate
        + cached * cached_rate + output * output_rate

\* The costs a model can add: that of its token sums over the whole query
\* under a record that resolves for it, 0 when none resolves
ModelCosts(model) ==
    LET cs == CountedFor(model)
        input == SatSum([i \in 1..Len(cs) |-> cs[i].delta.input_tokens])
        cached == SatSum([i \in 1..Len(cs) |-> cs[i].delta.cached_input_tokens])
        output == SatSum([i \in 1..Len(cs) |-> cs[i].delta.output_tokens])
    IN  { IF p = None THEN 0 ELSE CodexCostOf(input, cached, output, Unwrap(p))
          : p \in pricing_for_model(dataset, model) }

RECURSIVE SumOverModels(_)
SumOverModels(models) ==
    IF models = {} THEN {0}
    ELSE LET model == CHOOSE x \in models : TRUE
         IN  {c + rest : c \in ModelCosts(model), rest \in SumOverModels(models \ {model})}

\* C20: exec-session cost is computed once per model from the token sums of
\* the whole query, not per event: cost = max(0, input - cached)*input_rate
\* + cached*(cache_read_rate if present, else input_rate) +
\* output*output_rate, absent rates 0, no 200000-token tiering; cost_usd is
\* the sum over models, and a model without a pricing record adds 0 while
\* its tokens still count in total_tokens.
C20_CostPerModel ==
    /\ (IsSome(call) /\ Unwrap(call).fn = "codex" /\ IsSome(Unwrap(call).ret)) =>
          Unwrap(Unwrap(call).ret) =
              CodexCostOf(Unwrap(call).tokens.input_tokens,
                          Unwrap(call).tokens.cached_input_tokens,
                          Unwrap(call).tokens.output_tokens, Unwrap(call).pricing)
    /\ (~IsClaude /\ call = None) =>
          /\ totals.total_tokens = SatSum([i \in 1..Len(counted) |-> counted[i].tokens])
          /\ pc /= "done" => totals.cost_usd = 0
          /\ (pc = "done" /\ dataset /= {}) =>
                totals.cost_usd \in SumOverModels({counted[i].model : i \in 1..Len(counted)})

\* A finished exec-session pass with a mapping that prices gpt-5 with a
\* cache-read rate and does not price o3, over events of both models, one of
\* them with cached input
C20_Witness ==
    /\ ~IsClaude /\ call = None /\ pc = "done" /\ dataset /= {}
    /\ \E i, j \in 1..Len(counted) :
          /\ counted[i].model = <<"o3">>
          /\ pricing_for_model(dataset, counted[i].model) = {None}
          /\ counted[j].delta.cached_input_tokens > 0
          /\ pricing_for_model(dataset, counted[j].model) = {Some(Gpt5Pricing)}
    /\ totals.cost_usd > 0
    /\ totals.total_tokens > SatSum([i \in 1..Len(CountedFor(<<"gpt-5", "-codex">>)) |->
                                        CountedFor(<<"gpt-5", "-codex">>)[i].tokens])

\* The cost function returned for sums beyond 200000 tokens under a record
\* with above-threshold rates and no cache-read rate
C20_WitnessCall ==
    /\ IsSome(call) /\ Unwrap(call).fn = "codex"
    /\ Unwrap(call).pricing = Gpt5NoCacheRate
    /\ Unwrap(call).tokens.cached_input_tokens = 100000
    /\ Unwrap(call).ret = Some(300000 * 2 + 100000 * 2 + 300000 * 10)

-----------------------------------------------------------------------------
(* C21 *)

\* A returned call of the lookup fn
Returned(fn) == IsSome(call) /\ Unwrap(call).fn = fn /\ Unwrap(call).ret # None

\* m, p1 + m, ..., pk + m
CandidateKeys(m, ps) == <<m>> \o [i \in 1..Len(ps) |-> ps[i] \o m]

\* The candidates, by position, that are keys of the mapping
PresentCandidates(ds, m, ps) ==
    {i \in 1..Len(CandidateKeys(m, ps)) : \E p \in ds : p[1] = CandidateKeys(m, ps)[i]}

\* The entries whose key, letter case aside, contains m or is contained in m
SubstringRelated(ds, m) ==
    {p \in ds : \/ contains(to_ascii_lowercase(p[1]), to_ascii_lowercase(m))
                \/ contains(to_ascii_lowercase(m), to_ascii_lowercase(p[1]))}

\* The record under the first candidate that is a key
FirstCandidateRecord(ds, m, ps) ==
    LET first == CHOOSE i \in PresentCandidates(ds, m, ps) :
                    \A j \in PresentCandidates(ds, m, ps) : i <= j
    IN  (CHOOSE p \in ds : p[1] = CandidateKeys(m, ps)[first])[2]

\* C21: find_model_pricing returns the record of the first key present among
\* m, p1 + m, ..., pk + m; only if none is present, the record of a key that
\* case-insensitively contains m or is contained in m; and no record exactly
\* when there is neither.
C21_FirstKeyThenSubstring ==
    Returned("find_model_pricing") =>
        LET c == Unwrap(call)
            r == Unwrap(c.ret)
        IN  IF PresentCandidates(c.dataset, c.model_name, c.provider_prefixes) # {}
            THEN r = Some(FirstCandidateRecord(c.dataset, c.model_name, c.provider_prefixes))
            ELSE IF SubstringRelated(c.dataset, c.model_name) # {}
                 THEN \E p \in SubstringRelated(c.dataset, c.model_name) : r = Some(p[2])
                 ELSE r = None

\* A prefixed key is found although another key, with another record, is
\* substring-related to the name
C21_Witness ==
    /\ Returned("find_model_pricing")
    /\ LET c == Unwrap(call)
       IN  /\ PresentCandidates(c.dataset, c.model_name, c.provider_prefixes) # {}
           /\ 1 \notin PresentCandidates(c.dataset, c.model_name, c.provider_prefixes)
           /\ \E p \in SubstringRelated(c.dataset, c.model_name) : Unwrap(c.ret) # Some(p[2])

\* Nothing exact or prefixed: a substring-related key is found
C21_WitnessSubstring ==
    /\ Returned("find_model_pricing")
    /\ LET c == Unwrap(call)
       IN  /\ PresentCandidates(c.dataset, c.model_name, c.provider_prefixes) = {}
           /\ IsSome(Unwrap(c.ret))

-----------------------------------------------------------------------------
(* C22 *)

\* C22: for 'gpt-5-codex' with no exact or prefixed key, the record found for
\* the alias 'gpt-5' (exact or prefixed) is used in preference to any key that
\* merely substring-matches 'gpt-5-codex'.
C22_AliasBeforeSubstring ==
    ( /\ Returned("pricing_for_model")
      /\ Unwrap(call).model_name = <<"gpt-5", "-codex">>
      /\ PresentCandidates(Unwrap(call).dataset, <<"gpt-5", "-codex">>,
                           CODEX_PROVIDER_PREFIXES) = {}
      /\ PresentCandidates(Unwrap(call).dataset, <<"gpt-5">>,
                           CODEX_PROVIDER_PREFIXES) # {} )
    => Unwrap(Unwrap(call).ret)
         = Some(FirstCandidateRecord(Unwrap(call).dataset, <<"gpt-5">>,
                                     CODEX_PROVIDER_PREFIXES))

-----------------------------------------------------------------------------
(* C23 *)

\* Thread t runs the lock block at position p in this step
RunsBlock(t, p) ==
    /\ threads[t].pc = p
    /\ \E l \in LockNames : locks[l] = t
    /\ threads'[t] # threads[t]

\* The cached file list of the thread's source is for the thread's
\* directory list and less than five minutes old
FreshForThread(t) ==
    LET c == files_cache[threads[t].src]
    IN  /\ threads[t].dirs # <<>>
        /\ c.base_dirs = threads[t].dirs
        /\ c.scanned_at # <<>>
        /\ now - c.scanned_at[1] < 5

\* C23: a discovery call with a non-empty directory list equal to the cached
\* one, less than 5 minutes after the cached scan instant, returns the cached
\* file list without rescanning and leaves the cache unchanged; the scan
\* instant being unchanged, a call 5 minutes or more after it rescans.
C23_FilesCacheHit ==
    [][\A t \in Threads :
          RunsBlock(t, "files_check") =>
             IF FreshForThread(t)
             THEN /\ threads'[t].pc = "aggregate"
                  /\ threads'[t].files = files_cache[threads[t].src].files
                  /\ files_cache' = files_cache
             ELSE threads'[t].pc = "scan"]_vars

\* A thread that has scanned nothing holds the list that another thread's
\* scan cached four minutes ago
C23_Witness ==
    \E t \in Threads :
        /\ threads[t].pc = "aggregate"
        /\ threads[t].files # <<>>
        /\ threads[t].files = files_cache[threads[t].src].files
        /\ \A i \in 1..Len(recomputed) : recomputed[i].thread # t
        /\ files_cache[threads[t].src].scanned_at = <<0>>
        /\ now = 4

-----------------------------------------------------------------------------
(* C24 *)

\* fs lists, in the order of dirs, directories of dirs that hold a log file
IsScanOf(fs, dirs, src) ==
    LET Listed(d) == \E i \in 1..Len(fs) : fs[i] = d
    IN  /\ fs = SelectSeq(dirs, Listed)
        /\ \A i \in 1..Len(fs) : logs[<<src, fs[i]>>] > 0

\* C24: a call whose directory list differs from the cached one or whose
\* cache entry is at least 5 minutes old rescans and overwrites the cache
\* with its own list and scan; in every reachable state the cached file list
\* is a scan of the cached directory list, and the list a call gets back is
\* a scan of its own directory list.
C24_FilesCacheValid ==
    /\ [](/\ \A s \in Sources :
                IsScanOf(files_cache[s].files, files_cache[s].base_dirs, s)
          /\ \A t \in Threads :
                threads[t].pc = "aggregate" =>
                   IsScanOf(threads[t].files, threads[t].dirs, threads[t].src))
    /\ [][\A t \in Threads :
             /\ (RunsBlock(t, "files_check") /\ ~FreshForThread(t))
                   => threads'[t].pc = "scan" /\ threads'[t].files = <<>>
             /\ RunsBlock(t, "files_write")
                   => files_cache'[threads[t].src] =
                         [base_dirs |-> threads[t].dirs, scanned_at |-> <<now>>,
                          files |-> threads[t].files]]_vars

\* Two callers with the same directories in another order: one holds its own
\* scan while the cache holds the other's
C24_Witness ==
    \E t \in Threads :
        /\ threads[t].pc = "aggregate"
        /\ threads[t].files = <<"a", "b">>
        /\ files_cache[threads[t].src].base_dirs = <<"b", "a">>
        /\ files_cache[threads[t].src].files = <<"b", "a">>

-----------------------------------------------------------------------------
(* C25 *)

\* The slot of the thread's query: its source, and whether its mapping is
\* not empty
SlotOfThread(t) == <<threads[t].src, threads[t].ds # {}>>

\* The slot of the thread's query was computed less than five minutes ago
FreshSlotForThread(t) ==
    LET sl == slots[SlotOfThread(t)]
    IN  sl.computed_at # <<>> /\ sl.totals # <<>> /\ now - sl.computed_at[1] < 5

\* C25: an all-time query reads and writes only the slot selected by its
\* source and by whether its mapping is empty; made less than 5 minutes after
\* the slot's computation instant it returns the slot's totals without
\* re-aggregating and without changing the slot, whatever its non-empty
\* mapping holds; made later it goes on to recompute, and what it computed
\* overwrites the slot.
C25_SlotPerSourceAndCost ==
    [][/\ \A t \in Threads :
             /\ RunsBlock(t, "slot_check") =>
                   IF FreshSlotForThread(t)
                   THEN /\ threads'[t].pc = "done"
                        /\ threads'[t].ret = slots[SlotOfThread(t)].totals
                        /\ slots' = slots /\ files_cache' = files_cache
                   ELSE /\ threads'[t].pc # "done" \/ threads'[t].err
                        /\ slots' = slots
             /\ RunsBlock(t, "slot_write") =>
                   slots' = [slots EXCEPT ![SlotOfThread(t)] =
                                [computed_at |-> <<now>>, totals |-> threads[t].ret]]
       /\ \A k \in SlotKeys :
             slots'[k] # slots[k] =>
                \E t \in Threads : RunsBlock(t, "slot_write") /\ SlotOfThread(t) = k]_vars

\* A query with one non-empty mapping gets the totals that another thread
\* computed with another mapping
C25_Witness ==
    \E t, u \in Threads :
        /\ threads[t].pc = "done" /\ threads[u].pc = "done"
        /\ threads[t].ds = {2} /\ threads[u].ds = {1}
        /\ threads[t].src = threads[u].src
        /\ \A i \in 1..Len(recomputed) : recomputed[i].thread = u
        /\ threads[t].ret = threads[u].ret
        /\ threads[t].ret # <<>>
        /\ threads[t].ret[1].cost_usd > 0

-----------------------------------------------------------------------------
(* C26 *)

\* The tokens that the files of the thread's list hold
TokensInFiles(t) ==
    SeqSum([i \in 1..Len(threads[t].files) |->
               logs[<<threads[t].src, threads[t].files[i]>>]])

\* C26: a ranged query changes no all-time slot and returns what the files of
\* its list hold when it reads them, whatever the slots hold: entries
\* appended to a discovered file are in the result of the next ranged query.
C26_RangedRereadsFiles ==
    [][\A t \in Threads :
          (threads'[t] # threads[t] /\ threads'[t].op = "range") =>
             /\ slots' = slots
             /\ threads[t].pc = "aggregate" =>
                   /\ threads'[t].pc = "done"
                   /\ threads'[t].ret # <<>>
                   /\ threads'[t].ret[1].total_tokens = TokensInFiles(t)]_vars

\* A ranged query that found the file list cached returns the two tokens the
\* file holds by now, while the all-time slot holds the total of before
C26_Witness ==
    \E t \in Threads :
        /\ threads[t].op = "range" /\ threads[t].pc = "done"
        /\ threads[t].ret # <<>>
        /\ threads[t].ret[1].total_tokens = 2
        /\ \A i \in 1..Len(recomputed) : recomputed[i].thread # t
        /\ \E k \in SlotKeys : /\ slots[k].totals # <<>>
                               /\ slots[k].computed_at # <<>>
                               /\ slots[k].totals[1].total_tokens = 1

-----------------------------------------------------------------------------
(* C27 *)

\* What the cache behind the lock holds
CacheValue(key) ==
    IF key[1] = "slot" THEN slots[key[2]].totals
    ELSE <<[base_dirs |-> files_cache[key[2]].base_dirs, files |-> files_cache[key[2]].files]>>

\* The recomputations of the cache that have written their result
Written(key) ==
    {i \in 1..Len(recomputed) : recomputed[i].key = key /\ recomputed[i].value # <<>>}

\* C27: when all callers have finished, each cache holds the result of the
\* most recently started of its recomputations: a result from an older view
\* of the logs never replaces one from a newer view.
C27_NewestRecomputationWins ==
    (\A t \in Threads : threads[t].pc \in {"idle", "done"}) =>
        \A key \in LockNames :
            Written(key) # {} =>
               CacheValue(key)
                 = recomputed[CHOOSE i \in Written(key) : \A j \in Written(key) : j <= i].value

-----------------------------------------------------------------------------
(* C28 *)

\* C28: within a pass, total_tokens and cost_usd never decrease from one
\* processed entry to the next, whatever the log holds and whatever explicit
\* cost an entry carries.
C28_TotalsNeverDecrease ==
    [][/\ totals'.total_tokens >= totals.total_tokens
       /\ totals'.cost_usd >= totals.cost_usd]_vars

-----------------------------------------------------------------------------
(* C29 *)

\* C29: a bad record never fails a query and never changes what the other
\* records contribute: for either source, the pass over a file list that
\* holds blank lines, lines that are not JSON, schema-invalid entries or
\* unreadable files finishes, and its total_tokens and cost_usd equal those
\* of the pass over the list without them.
C29_BadRecordsChangeNothing ==
    /\ pc /= "panicked"
    /\ (pc = "done" /\ prior /= None) =>
          /\ totals.total_tokens = Unwrap(prior).total_tokens
          /\ totals.cost_usd = Unwrap(prior).cost_usd

-----------------------------------------------------------------------------
(* C30 *)

\* A JSON number that is a non-negative integer
IsCount(value) == Len(value) = 1 /\ value[1] >= 0
CountOrZero(value) == IF IsCount(value) THEN value[1] ELSE 0
FirstCount(first, second) == IF IsCount(first) THEN first[1] ELSE CountOrZero(second)

\* What C30 requires of a counted entry, read from the line's fields
HasRequiredFields(l) ==
    /\ IsSome(l.timestamp) /\ Unwrap(l.timestamp).form /= "empty"
    /\ l.usage_at /= "none"
    /\ IsCount(l.input_tokens) \/ IsCount(l.prompt_tokens)
    /\ IsCount(l.output_tokens) \/ IsCount(l.completion_tokens)

\* A JSON line with the required fields and a message object, in range when
\* the pass is ranged
MayBeCounted(p) ==
    /\ LineAt(p).kind = "json" /\ LineAt(p).message
    /\ HasRequiredFields(LineAt(p))
    /\ mode = "cc_range" =>
          /\ RangeIsValid
          /\ ParsesAt(Unwrap(LineAt(p).timestamp))
          /\ Since <= LocalDateOf(Unwrap(LineAt(p).timestamp))
          /\ LocalDateOf(Unwrap(LineAt(p).timestamp)) <= Until

\* C30: a chat-log entry is counted only if it has a non-empty timestamp, a
\* usage object, a valid input count (input_tokens, else prompt_tokens) and
\* a valid output count (output_tokens, else completion_tokens), valid
\* meaning a non-negative integer; a cache-creation or cache-read count that
\* is absent or invalid counts as 0 and does not drop the entry; a dropped
\* entry adds nothing and registers no key: an entry that has the required
\* fields goes uncounted only when a counted entry has its key.
C30_CountedOnlyIfComplete ==
    IsClaude =>
        /\ TotalsAreCounted
        /\ \A i \in 1..Len(counted) :
              LET l == LineAt(<<counted[i].file, counted[i].line>>)
              IN  /\ HasRequiredFields(l)
                  /\ counted[i].tokens =
                        FirstCount(l.input_tokens, l.prompt_tokens)
                        + FirstCount(l.output_tokens, l.completion_tokens)
                        + CountOrZero(l.cache_creation_input_tokens)
                        + CountOrZero(l.cache_read_input_tokens)
        /\ \A p \in Positions :
              (Passed(p) /\ MayBeCounted(p) /\ p \notin CountedPositions) =>
                  /\ HasBothIds(p)
                  /\ \E q \in CountedPositions : HasBothIds(q) /\ KeyAt(q) = KeyAt(p)
        /\ \A h \in processed_hashes :
              \E q \in CountedPositions : HasBothIds(q) /\ KeyAt(q) = h

\* A finished pass that dropped an entry for its input count and then, in
\* the same file, counted an entry with the same ids whose cache-creation
\* count is negative, at 2 + 1 + 0 + 3 tokens
C30_Witness ==
    /\ IsClaude /\ pc = "done"
    /\ \E p \in Positions, i \in 1..Len(counted) :
          LET q == <<counted[i].file, counted[i].line>>
          IN  /\ p[1] = q[1] /\ p[2] < q[2]
              /\ LineAt(p).input_tokens = <<-1>>
              /\ p \notin CountedPositions
              /\ HasBothIds(p) /\ HasBothIds(q) /\ KeyAt(p) = KeyAt(q)
              /\ LineAt(q).cache_creation_input_tokens = <<-1>>
              /\ counted[i].tokens = 6

-----------------------------------------------------------------------------
(* C31 *)

\* The override of a resolution call, and whether it is set to a non-blank
\* value
OverrideText(c) == UnwrapOr(c.env.CLAUDE_CONFIG_DIR, <<>>)
OverrideIsSet(c) == \E i \in 1..Len(OverrideText(c)) : OverrideText(c)[i] /= " "

\* The directories named by the comma-separated candidates of the override
\* that exist and hold a `projects` directory
QualifyingCandidates(c) ==
    { resolve_like_node(Trim(seg)) :
        seg \in { SplitOn(OverrideText(c), ",")[i] :
                    i \in 1..Len(SplitOn(OverrideText(c), ",")) } \ {<<>>} }
    \cap { d \in DOMAIN c.fs : c.fs[d] = "projects" }

\* The default locations that exist and hold a `projects` directory: there
\* are none without HOME
QualifyingDefaults(c) ==
    IF UnwrapOr(c.env.HOME, <<>>) = <<>> THEN {}
    ELSE { PathBufFrom(UnwrapOr(c.env.XDG_CONFIG_HOME,
                                Unwrap(c.env.HOME) \o <<"/", ".config">>)
                       \o <<"/", "claude">>),
           PathBufFrom(Unwrap(c.env.HOME) \o <<"/", ".claude">>) }
         \cap { d \in DOMAIN c.fs : c.fs[d] = "projects" }

DirsOf(r) == {r.dirs[i] : i \in 1..Len(r.dirs)}

\* C31: chat-log directory resolution. With the override set to a non-blank
\* value only its comma-separated candidates count: the result is those that
\* are directories holding `projects`, or, when there are none, the
\* invalid-override error with the configured value, whatever the default
\* locations hold. With the override unset or blank the result is the
\* qualifying default locations, or the no-defaults error. A successful
\* result is not empty and holds no directory twice.
C31_DirectoryResolution ==
    Returned("default_claude_base_dirs") =>
        LET c == Unwrap(call)
            r == Unwrap(c.ret)
            wanted == IF OverrideIsSet(c) THEN QualifyingCandidates(c)
                      ELSE QualifyingDefaults(c)
        IN  /\ r.ok <=> wanted /= {}
            /\ r.ok =>
                  /\ DirsOf(r) = wanted
                  /\ r.dirs /= <<>>
                  /\ \A i, j \in 1..Len(r.dirs) : r.dirs[i] = r.dirs[j] => i = j
            /\ ~r.ok =>
                  /\ r.error = IF OverrideIsSet(c) THEN "NoValidEnvPaths"
                               ELSE "NoValidDefaultPaths"
                  /\ OverrideIsSet(c) => r.env_paths = Trim(OverrideText(c))

\* A call with the override set to a directory without `projects`, while a
\* default location qualifies, that returned the invalid-override error
C31_Witness ==
    /\ Returned("default_claude_base_dirs")
    /\ OverrideIsSet(Unwrap(call))
    /\ \E d \in OverrideDirs :
          /\ Unwrap(call).fs[d] = "dir"
          /\ resolve_like_node(Trim(OverrideText(Unwrap(call)))) = d
    /\ QualifyingDefaults(Unwrap(call)) /= {}
    /\ Unwrap(Unwrap(call).ret).error = "NoValidEnvPaths"

-----------------------------------------------------------------------------
(* C32 *)

\* The timestamp text of the line at p, for either source
StampAt(p) == Unwrap(LineAt(p).timestamp)

\* C32: a timestamp that consists only of ASCII digits does not parse, and
\* is never read as an epoch value: no event counted by a ranged pass, of
\* either source, carries such a timestamp, whatever day the number would
\* name and whatever the range and the viewer's timezone.
C32_DigitsNeverParse ==
    IsRanged =>
        \A p \in CountedPositions :
            LineAt(p).timestamp /= None => StampAt(p).form /= "digits"

\* A finished ranged pass over the day that an all-digit timestamp would name
\* as an epoch value, which is past the event and has not counted it
C32_Witness ==
    /\ IsRanged /\ pc = "done" /\ RangeIsValid
    /\ \E p \in Positions :
          /\ LineAt(p).timestamp /= None
          /\ StampAt(p).form = "digits"
          /\ Since <= StampAt(p).day /\ StampAt(p).day <= Until
          /\ p \notin CountedPositions

-----------------------------------------------------------------------------
(* C33 *)

\* The local calendar date of a timestamp text as C33 states it
StatedLocalDate(t) ==
    CASE t.form = "rfc3339"  -> (t.day * 24 + t.hour - t.off + tz) \div 24
      [] t.form = "naive"    -> t.day
      [] t.form = "slash"    -> t.day
      [] t.form = "dateonly" -> IF tz < 0 THEN t.day - 1 ELSE t.day

HasStatedDate(t) == t.form \in {"rfc3339", "naive", "slash", "dateonly"}

\* C33: the local calendar date of a timestamp is, for an offset-qualified
\* date-time, the date of the instant in the viewer's timezone; for a
\* date-time without offset and for YYYY/MM/DD, the written date; for a bare
\* YYYY-MM-DD, the previous day when the viewer's UTC offset is negative and
\* the written day otherwise. It is the date the range filter uses: a ranged
\* pass counts a complete event that no deduplication applies to exactly
\* when this date lies in the range.
C33_LocalDate ==
    (IsRanged /\ RangeIsValid) =>
        \A p \in Positions :
            (Passed(p) /\ LineAt(p) \in StampLines \cup CxStampLines) =>
                ( p \in CountedPositions <=>
                      /\ HasStatedDate(StampAt(p))
                      /\ Since <= StatedLocalDate(StampAt(p))
                      /\ StatedLocalDate(StampAt(p)) <= Until )

\* A finished ranged pass, the viewer west of UTC, over the day before the
\* one written in a bare date, that counted the event with the bare date
C33_Witness ==
    /\ IsRanged /\ pc = "done" /\ RangeIsValid /\ tz < 0
    /\ \E p \in CountedPositions :
          /\ StampAt(p).form = "dateonly"
          /\ Until = StampAt(p).day - 1

-----------------------------------------------------------------------------
(* C34 *)

\* The all-time pass that followed a ranged pass of the same source has
\* finished
BothDone(m) == pc = "done" /\ prior /= None /\ mode = m

\* The timestamp of counted[i] parses to a date inside the range of the
\* earlier pass
CountedInRange(i) ==
    LET l == LineAt(<<counted[i].file, counted[i].line>>)
    IN  /\ l.timestamp /= None
        /\ ParsesAt(Unwrap(l.timestamp))
        /\ Unwrap(prior).since <= LocalDateOf(Unwrap(l.timestamp))
        /\ LocalDateOf(Unwrap(l.timestamp)) <= Unwrap(prior).until

\* C34: range filtering never changes how an exec-session delta is
\* reconstructed: the total_tokens of the ranged pass equals the sum
\* (saturating, as the totals are), over the events whose timestamp parses to
\* a date inside the range, of the deltas that the all-time pass computes for
\* the same files.
C34_RangedSumsAllTimeDeltas ==
    BothDone("cx_all") =>
        Unwrap(prior).total_tokens =
            SatSum([i \in 1..Len(counted) |->
                       IF CountedInRange(i) THEN counted[i].tokens ELSE 0])

-----------------------------------------------------------------------------
(* C35 *)

\* C35: for the same chat-log file list, the total_tokens of a ranged pass
\* never exceeds the total_tokens of the all-time pass.
C35_RangedAtMostAllTime ==
    BothDone("cc_all") => Unwrap(prior).total_tokens <= totals.total_tokens

-----------------------------------------------------------------------------
(* C36 *)

\* The lines of file f that are token_count events
UsageEventLines(f) ==
    SelectSeq(files[f].lines,
              LAMBDA l : l.kind = "json" /\ l.type = "event_msg"
                         /\ l.payload_type = "token_count")

\* The counts of a cumulative snapshot as written
SnapshotCounts(l) ==
    LET u == Unwrap(l.total_token_usage)
    IN  [ input_tokens |-> ensure_u64(u.input_tokens),
          cached_input_tokens |-> ensure_u64(u.cached_input_tokens),
          output_tokens |-> ensure_u64(u.output_tokens),
          reasoning_output_tokens |-> ensure_u64(u.reasoning_output_tokens),
          total_tokens |-> ensure_u64(u.total_tokens) ]

\* File f holds usage events, all of them carry only a cumulative snapshot,
\* and no count of a snapshot is below that of the snapshot before it
OnlyGrowingSnapshots(f) ==
    LET ev == UsageEventLines(f)
    IN  /\ files[f].readable /\ ev /= <<>>
        /\ \A i \in 1..Len(ev) :
              ev[i].last_token_usage = None /\ ev[i].total_token_usage /= None
        /\ \A i \in 1..(Len(ev) - 1) :
              \A k \in DOMAIN SnapshotCounts(ev[i]) :
                  SnapshotCounts(ev[i])[k] <= SnapshotCounts(ev[i + 1])[k]

\* What the pass counted for file f
CountedForFile(f) ==
    LET of == SelectSeq(counted, LAMBDA c : c.file = f)
    IN  SatSum([i \in 1..Len(of) |-> of[i].tokens])

\* C36: delta reconstruction telescopes: for an exec-session file whose usage
\* events carry only cumulative snapshots that do not decrease in any
\* category, the total_tokens that the all-time pass counts for the file
\* add up to the total_tokens of the file's last snapshot.
C36_DeltasTelescope ==
    (mode = "cx_all" /\ pc = "done") =>
        \A f \in 1..Len(files) :
            OnlyGrowingSnapshots(f) =>
                CountedForFile(f) =
                    SnapshotCounts(UsageEventLines(f)[Len(UsageEventLines(f))]).total_tokens

-----------------------------------------------------------------------------
(* C37 *)

\* C37: every exec-session usage event whose payload carries a model makes
\* that model the file's current declared model for the events after it,
\* counted or not: right after the pass has gone over such an event, the
\* current model is the model of the event.
C37_EventDeclaresModel ==
    (~IsClaude /\ pc = "scan" /\ fi <= Len(order) /\ CurFile.readable
     /\ li >= 2 /\ li <= Len(CurFile.lines) + 1) =>
        LET l == CurFile.lines[li - 1]
        IN  ( /\ l.kind = "json" /\ l.type = "event_msg"
              /\ l.payload_type = "token_count"
              /\ IsSome(extract_model(l)) ) =>
                current_model = extract_model(l)

-----------------------------------------------------------------------------
(* C38 *)

\* The entries at p and q have equal message ids and equal request ids
SameIdPair(p, q) ==
    /\ LineAt(p).id = LineAt(q).id
    /\ LineAt(p).requestId = LineAt(q).requestId

\* C38: two chat-log entries are duplicates of each other only if their
\* message ids are equal and their request ids are equal, also when an id
\* holds a ':': an eligible entry that the pass has gone over without
\* counting it has the same (message id, request id) pair as a counted one.
C38_DuplicatesShareBothIds ==
    (IsClaude /\ pc /= "panicked") =>
        \A p \in Positions :
            (Passed(p) /\ Eligible(p) /\ p \notin CountedPositions) =>
                \E q \in CountedPositions : SameIdPair(p, q)

-----------------------------------------------------------------------------
(* C39 *)

\* The cache locks that thread t holds
LocksHeldBy(t) == {k \in DOMAIN locks : locks[k] = t}

-----------------------------------------------------------------------------
(* C40 *)

\* Thread t runs the first block of an all-time chat-log query in this step
RunsChatLogCheck(t) == threads[t].src = "cc" /\ RunsBlock(t, "slot_check")

\* C40: the all-time chat-log query and a failing directory resolution. On
\* a hit within the TTL the cached totals are returned and no directory is
\* resolved. On a miss the directories are resolved again, whatever earlier
\* calls came to; when that fails the typed error is returned with no totals
\* and the slot is as it was. An error comes from nowhere else, and a slot
\* that holds an instant holds totals: no failure is cached.
C40_FailureNotCached ==
    /\ [](\A k \in SlotKeys :
            (k[1] = "cc" /\ slots[k].computed_at /= <<>>) => slots[k].totals /= <<>>)
    /\ [][\A t \in Threads :
            /\ RunsChatLogCheck(t) =>
                  IF FreshSlotForThread(t)
                  THEN /\ threads'[t].pc = "done" /\ ~threads'[t].err
                       /\ threads'[t].ret = slots[SlotOfThread(t)].totals
                       /\ recomputed' = recomputed
                  ELSE /\ Len(recomputed') = Len(recomputed) + 1
                       /\ slots' = slots
                       /\ \/ /\ threads'[t].pc = "done" /\ threads'[t].err
                             /\ threads'[t].ret = <<>>
                          \/ /\ threads'[t].pc = "files_check" /\ ~threads'[t].err
                             /\ threads'[t].dirs /= <<>>
            /\ (threads'[t].err /\ ~threads[t].err) =>
                  RunsChatLogCheck(t) /\ ~FreshSlotForThread(t)]_vars

\* An all-time chat-log query has returned the error, the slot of its
\* mapping holds nothing, and the other thread, querying the same slot, has
\* resolved the directories and scans them
C40_Witness ==
    \E t, u \in Threads :
        /\ t /= u
        /\ threads[t].src = "cc" /\ threads[t].pc = "done" /\ threads[t].err
        /\ threads[u].src = "cc" /\ SlotOfThread(u) = SlotOfThread(t)
        /\ slots[SlotOfThread(t)].computed_at = <<>>
        /\ threads[u].pc = "scan"
        /\ Len(recomputed) >= 2
        /\ recomputed[1].thread = t /\ recomputed[2].thread = u

====
